---- MODULE Spec2Model ----
(***************************************************************************)
(* Transcription credit metering and job lifecycle of longcut:             *)
(* the transcription manager (job rows, consume / refund / cancel /        *)
(* top-up) and the POST /api/transcribe handler that drives it.            *)
(*                                                                         *)
(* Every storage call (one awaited supabase query or rpc) is one atomic    *)
(* step; a function that awaits several calls is a process whose pc moves  *)
(* between them, so that other callers interleave exactly where the code   *)
(* yields.  The background worker (/api/transcribe/process) and the        *)
(* billing system are environments: they may call the manager's functions  *)
(* in any order.                                                           *)
(***************************************************************************)
EXTENDS Integers, FiniteSets, Sequences, TLC

\* ---------------------------------------------------------------- bounds
MaxJobs == 2
MaxRequests == 2
MaxCancels == 1
MaxRefundCalls == 2
MaxTopupCalls == 3
LedgerTopupCalls == 1
DecisionCalls == 1
DecisionRefundCalls == 1

\* ------------------------------------------------------ program constants
\* Instants are counted in days, so the thirty days are 30.
THIRTY_DAYS_MS == 30
TRANSCRIPTION_LIMITS_pro == 120
UNLIMITED_MINUTES == 999999

\* ----------------------------------------------------------- input domains
Users == {"u1", "u2"}
UnlimitedUsers == {"u2"}
MeteredUsers == Users \ UnlimitedUsers
Videos == {"v1"}
MinuteChoices == {25, 100}
TopupChoices == {30}
PaymentIds == {"pi_1", "pi_2"}
ReplayMinutes == {30, 60}
EstimateChoices == {0, 25, 100, 10000}
JobIds == 1..MaxJobs
ReqIds == 1..MaxRequests
CancelIds == 1..MaxCancels
Tiers == {"none", "free", "pro"}

Null == "null"
Unset == "unset"

JobStatuses == {"pending", "downloading", "transcribing", "completed", "failed", "cancelled"}
ActiveStatuses == {"pending", "downloading", "transcribing"}
TerminalStatuses == {"completed", "failed", "cancelled"}

Min(a, b) == IF a < b THEN a ELSE b
Max(a, b) == IF a > b THEN a ELSE b

VARIABLES
  subscription,   \* what getUserSubscriptionStatus answers per user: a tier, or "none"
  jobs,           \* table transcription_jobs, by id; ids are given in creation order
  ledger,         \* per job: the split recorded by consume, until refund clears it
  topup,          \* profiles.transcription_minutes_topup per user
  applied,        \* payment intent ids already credited
  credited,       \* per user: top-up minutes ever credited
  reqs,           \* POST /api/transcribe calls in flight: pc and locals
  cancels,        \* cancelTranscriptionJob calls in flight: pc, locals, return value
  consumeRet,     \* per job: what consumeTranscriptionMinutes returned to the worker
  refundCalls,    \* number of direct refundTranscriptionMinutes calls so far
  refundRet,      \* what the last direct refundTranscriptionMinutes call returned
  topupCalls,     \* number of addTranscriptionTopupCredits calls so far
  topupRet,       \* what the last addTranscriptionTopupCredits call returned
  worker,         \* per job: where the background run that finishes the job stands
  billing,        \* the last resolveBillingPeriod call: its subscription, now and result
  lastUpdate      \* the last updateTranscriptionJobStatus call a caller keeps track of

vars == <<subscription, jobs, ledger, topup, applied, credited, reqs, cancels,
          consumeRet, refundCalls, refundRet, topupCalls, topupRet, worker, billing,
          lastUpdate>>

\* ------------------------------------------------------------------ rows
NoJob == [exists |-> FALSE, userId |-> Null, youtubeId |-> Null, status |-> Null,
          progress |-> 0, errorMessage |-> Null, transcriptData |-> Null]

NoEntry == [present |-> FALSE, user |-> Null, sub |-> 0, top |-> 0]

hasUnlimitedVideoAllowanceById(u) == u \in UnlimitedUsers

\* Minutes recorded as consumed by user u in the current billing period.
RECURSIVE UsedUpTo(_, _, _)
UsedUpTo(led, u, n) ==
  IF n = 0 THEN 0
  ELSE UsedUpTo(led, u, n - 1)
       + (IF led[n].present /\ led[n].user = u THEN led[n].sub + led[n].top ELSE 0)

get_transcription_usage_in_period(led, u) == UsedUpTo(led, u, MaxJobs)

\* --------------------------------------------- updateTranscriptionJobStatus
\* A patch gives each field a value or leaves it Unset (undefined in the code;
\* -1 for the number).
Patch(s, pr, e, t) == [status |-> s, progress |-> pr, errorMessage |-> e, transcriptData |-> t]

\* The patches the pipeline sends: a stage change, a completion with its
\* transcript, a failure with its message.
Patches ==
  {Patch("downloading", -1, Unset, Unset),
   Patch("transcribing", -1, Unset, Unset),
   Patch("completed", -1, Unset, "transcript"),
   Patch("failed", -1, "error", Unset)}

\* Mutant: the whole row is written; a field left out gets its default.
ApplyUpdatePayloadWholeRow(row, p) ==
  [row EXCEPT
     !.status = IF p.status # Unset THEN p.status ELSE @,
     !.progress = IF p.progress # -1 THEN p.progress ELSE 0,
     !.errorMessage = IF p.errorMessage # Unset THEN p.errorMessage ELSE Null,
     !.transcriptData = IF p.transcriptData # Unset THEN p.transcriptData ELSE Null]

\* The row after .update(updatePayload): only the supplied fields change.
ApplyUpdatePayload(row, p) ==
  [row EXCEPT
     !.status = IF p.status # Unset THEN p.status ELSE @,
     !.progress = IF p.progress # -1 THEN p.progress ELSE @,
     !.errorMessage = IF p.errorMessage # Unset THEN p.errorMessage ELSE @,
     !.transcriptData = IF p.transcriptData # Unset THEN p.transcriptData ELSE @]

\* .eq('id', jobId): the rows the update applies to.
UpdateMatches(row) == row.exists

UpdateCall(j, p) ==
  /\ jobs[j].exists
  /\ jobs' = [jobs EXCEPT ![j] = IF UpdateMatches(@) THEN ApplyUpdatePayload(@, p) ELSE @]

updateTranscriptionJobStatus(j, p) ==
  /\ UpdateCall(j, p)
  /\ UNCHANGED <<subscription, ledger, topup, applied, credited, reqs, cancels,
                 consumeRet, refundCalls, refundRet, topupCalls, topupRet, worker, billing, lastUpdate>>

\* The updates a caller may send: every field is supplied or left out.
ProgressChoices == {30, 60, 100}
SparsePatches ==
  {Patch(st, pr, e, t) :
     st \in {Unset, "downloading", "transcribing"}, pr \in {-1} \cup ProgressChoices,
     e \in {Unset, "error"}, t \in {Unset, "transcript"}}

NoUpdate == [job |-> 0, patch |-> Patch(Unset, -1, Unset, Unset), turn |-> 0]

\* The same call, with the caller keeping what it sent; turn tells one call
\* from the next.
updateTranscriptionJobStatusTracked(j, p) ==
  /\ UpdateCall(j, p)
  /\ lastUpdate' = [job |-> j, patch |-> p, turn |-> 1 - lastUpdate.turn]
  /\ UNCHANGED <<subscription, ledger, topup, applied, credited, reqs, cancels,
                 consumeRet, refundCalls, refundRet, topupCalls, topupRet, worker, billing>>

updateTranscriptionJobStatusError(j) ==
  /\ jobs[j].exists
  /\ UNCHANGED <<subscription, jobs, ledger, topup, applied, credited, reqs, cancels,
                 consumeRet, refundCalls, refundRet, topupCalls, topupRet, worker, billing, lastUpdate>>

\* -------------------------------------------------- refund (stored procedure)
\* refund_transcription_minutes(p_job_id): reverses the split recorded for the job
\* and clears the entry; with no entry it changes nothing and reports zero.
RefundRpcResult(led, j) ==
  [success |-> TRUE,
   minutes_refunded |-> IF led[j].present THEN led[j].sub + led[j].top ELSE 0]

\* Mutant: the record survives the refund.
LedgerAfterRefundKept(led, j) == led

LedgerAfterRefund(led, j) == [led EXCEPT ![j] = NoEntry]

\* Mutant: every refunded minute goes back to the top-up balance.
TopupAfterRefundAll(led, bal, j) ==
  IF led[j].present THEN [bal EXCEPT ![led[j].user] = @ + led[j].sub + led[j].top] ELSE bal

TopupAfterRefund(led, bal, j) ==
  IF led[j].present THEN [bal EXCEPT ![led[j].user] = @ + led[j].top] ELSE bal

\* refundTranscriptionMinutes: what the function returns for the rpc's answer.
\* Mutant: the rpc's minutes_refunded is dropped.
RefundReturnNoMinutes(rpc) ==
  [success |-> rpc.success, minutesRefunded |-> 0, error |-> Null]

RefundReturn(rpc) ==
  [success |-> rpc.success, minutesRefunded |-> rpc.minutes_refunded, error |-> Null]

RefundFailedReturn == [success |-> FALSE, minutesRefunded |-> 0, error |-> "REFUND_FAILED"]

NoRefundRet == [success |-> FALSE, minutesRefunded |-> 0, error |-> Null]

\* The rpc's effect on the ledger, shared by every caller of refund.
RefundCommit(j) ==
  /\ ledger' = LedgerAfterRefund(ledger, j)
  /\ topup' = TopupAfterRefund(ledger, topup, j)

\* A direct call (the worker's failure path).
refundTranscriptionMinutes(j) ==
  /\ refundCalls < MaxRefundCalls
  /\ refundCalls' = refundCalls + 1
  /\ RefundCommit(j)
  /\ refundRet' = [job |-> j] @@ RefundReturn(RefundRpcResult(ledger, j))
  /\ UNCHANGED <<subscription, jobs, applied, credited, reqs, cancels, consumeRet,
                 topupCalls, topupRet, worker, billing, lastUpdate>>

refundTranscriptionMinutesError(j) ==
  /\ refundCalls < MaxRefundCalls
  /\ refundCalls' = refundCalls + 1
  /\ refundRet' = [job |-> j] @@ RefundFailedReturn
  /\ UNCHANGED <<subscription, jobs, ledger, topup, applied, credited, reqs, cancels,
                 consumeRet, topupCalls, topupRet, worker, billing, lastUpdate>>

\* ------------------------------------------------------ cancelTranscriptionJob
\* .eq('id', jobId).in('status', ['pending', 'downloading', 'transcribing'])
\* Mutant: the filter lets a completed or failed row through.
CancelWhereNotCancelled(row) == row.exists /\ row.status # "cancelled"

\* Mutant: the update without its .in('status', ...) filter.
CancelWhereAnyStatus(row) == row.exists

CancelWhere(row) == row.exists /\ row.status \in ActiveStatuses

CancelWrite(row) == [row EXCEPT !.status = "cancelled", !.errorMessage = "Cancelled by user"]

IdleCancel == [pc |-> "idle", job |-> 0, atWrite |-> Null, success |-> FALSE,
               error |-> Null, refunded |-> 0]

\* First await: the conditional update of the job row.
CancelUpdate(c, j) ==
  /\ cancels[c].pc = "idle"
  /\ jobs' = [jobs EXCEPT ![j] = IF CancelWhere(@) THEN CancelWrite(@) ELSE @]
  /\ cancels' = [cancels EXCEPT ![c] = [@ EXCEPT !.pc = "refund", !.job = j,
                                                 !.atWrite = jobs[j].status]]
  /\ UNCHANGED <<subscription, ledger, topup, applied, credited, reqs, consumeRet,
                 refundCalls, refundRet, topupCalls, topupRet, worker, billing, lastUpdate>>

CancelUpdateError(c, j) ==
  /\ cancels[c].pc = "idle"
  /\ cancels' = [cancels EXCEPT ![c] = [@ EXCEPT !.pc = "done", !.job = j,
                                                 !.atWrite = jobs[j].status,
                                                 !.success = FALSE,
                                                 !.error = "FAILED_TO_CANCEL"]]
  /\ UNCHANGED <<subscription, jobs, ledger, topup, applied, credited, reqs, consumeRet,
                 refundCalls, refundRet, topupCalls, topupRet, worker, billing, lastUpdate>>

\* What cancelTranscriptionJob returns once the refund call has come back.
CancelReturn(refundResult) == [success |-> TRUE, error |-> Null]

\* Second await: refundTranscriptionMinutes(jobId); its result is not looked at.
CancelRefund(c) ==
  /\ cancels[c].pc = "refund"
  /\ RefundCommit(cancels[c].job)
  /\ LET ret == RefundReturn(RefundRpcResult(ledger, cancels[c].job))
         out == CancelReturn(ret)
     IN cancels' = [cancels EXCEPT ![c] = [@ EXCEPT !.pc = "done",
                                                    !.success = out.success,
                                                    !.error = out.error,
                                                    !.refunded = ret.minutesRefunded]]
  /\ UNCHANGED <<subscription, jobs, applied, credited, reqs, consumeRet,
                 refundCalls, refundRet, topupCalls, topupRet, worker, billing, lastUpdate>>

CancelRefundError(c) ==
  /\ cancels[c].pc = "refund"
  /\ LET out == CancelReturn(RefundFailedReturn)
     IN cancels' = [cancels EXCEPT ![c] = [@ EXCEPT !.pc = "done",
                                                    !.success = out.success,
                                                    !.error = out.error]]
  /\ UNCHANGED <<subscription, jobs, ledger, topup, applied, credited, reqs, consumeRet,
                 refundCalls, refundRet, topupCalls, topupRet, worker, billing, lastUpdate>>

\* ------------------------------------------------- consume (stored procedure)
\* consume_transcription_minutes_atomically: the split the transaction computes
\* from the usage and the balance it reads under its own isolation.
\* Mutant: the subscription part not capped by what the limit leaves.
SubscriptionShareUncapped(m, limit, used) == m

SubscriptionShare(m, limit, used) == Min(m, Max(0, limit - used))

\* Mutant: the balance is drawn on first, the subscription pays the rest.
ConsumeRpcResultTopupFirst(led, bal, u, m, limit) ==
  LET used == get_transcription_usage_in_period(led, u)
      fromTopup == Min(m, bal[u])
      fromSubscription == m - fromTopup
  IN IF fromSubscription > Max(0, limit - used)
     THEN [allowed |-> FALSE, reason |-> "INSUFFICIENT_CREDITS",
           minutes_from_subscription |-> 0, minutes_from_topup |-> 0]
     ELSE [allowed |-> TRUE, reason |-> "OK",
           minutes_from_subscription |-> fromSubscription,
           minutes_from_topup |-> fromTopup]

\* Mutant: the procedure without its sufficiency check.
ConsumeRpcResultUnchecked(led, bal, u, m, limit) ==
  LET used == get_transcription_usage_in_period(led, u)
      fromSubscription == SubscriptionShare(m, limit, used)
  IN [allowed |-> TRUE, reason |-> "OK",
      minutes_from_subscription |-> fromSubscription,
      minutes_from_topup |-> m - fromSubscription]

ConsumeRpcResult(led, bal, u, m, limit) ==
  LET used == get_transcription_usage_in_period(led, u)
      fromSubscription == SubscriptionShare(m, limit, used)
      fromTopup == m - fromSubscription
  IN IF fromTopup > bal[u]
     THEN [allowed |-> FALSE, reason |-> "INSUFFICIENT_CREDITS",
           minutes_from_subscription |-> 0, minutes_from_topup |-> 0]
     ELSE [allowed |-> TRUE, reason |-> "OK",
           minutes_from_subscription |-> fromSubscription,
           minutes_from_topup |-> fromTopup]

LedgerAfterConsume(led, u, j, rpc) ==
  IF rpc.allowed
  THEN [led EXCEPT ![j] = [present |-> TRUE, user |-> u,
                           sub |-> rpc.minutes_from_subscription,
                           top |-> rpc.minutes_from_topup]]
  ELSE led

\* Mutant: the balance pays for all the minutes.
TopupAfterConsumeWhole(bal, u, rpc) ==
  IF rpc.allowed
  THEN [bal EXCEPT ![u] = @ - rpc.minutes_from_subscription - rpc.minutes_from_topup]
  ELSE bal

TopupAfterConsume(bal, u, rpc) ==
  IF rpc.allowed THEN [bal EXCEPT ![u] = @ - rpc.minutes_from_topup] ELSE bal

\* consumeTranscriptionMinutes: what the function returns for the rpc's answer.
ConsumeReturn(rpc) ==
  IF ~rpc.allowed
  THEN [success |-> FALSE, error |-> rpc.reason, minutesFromSubscription |-> 0,
        minutesFromTopup |-> 0, unlimited |-> FALSE]
  ELSE [success |-> TRUE, error |-> Null,
        minutesFromSubscription |-> rpc.minutes_from_subscription,
        minutesFromTopup |-> rpc.minutes_from_topup, unlimited |-> FALSE]

UnlimitedReturn == [success |-> TRUE, error |-> Null, minutesFromSubscription |-> 0,
                    minutesFromTopup |-> 0, unlimited |-> TRUE]

FailureReturn(reason) == [success |-> FALSE, error |-> reason, minutesFromSubscription |-> 0,
                          minutesFromTopup |-> 0, unlimited |-> FALSE]

NoConsumeRet == [called |-> FALSE, minutes |-> 0] @@ FailureReturn(Null)

\* Whether consume goes on to the rpc for a user who is not unlimited.
\* Mutant: the tier is not looked at.
ConsumeTierAny(tier) == TRUE

ConsumeTierOk(tier) == tier = "pro"

\* The worker consumes once per job, for the job's owner.
ConsumeCall(u, j, m) ==
  /\ jobs[j].exists /\ jobs[j].userId = u
  /\ ~consumeRet[j].called
  /\ LET rpc == ConsumeRpcResult(ledger, topup, u, m, TRANSCRIPTION_LIMITS_pro)
         charged == ~hasUnlimitedVideoAllowanceById(u) /\ ConsumeTierOk(subscription[u])
         ret == IF hasUnlimitedVideoAllowanceById(u) THEN UnlimitedReturn
                ELSE IF ~ConsumeTierOk(subscription[u]) THEN FailureReturn("NOT_PRO")
                ELSE ConsumeReturn(rpc)
     IN /\ consumeRet' = [consumeRet EXCEPT ![j] = [called |-> TRUE, minutes |-> m] @@ ret]
        /\ ledger' = IF charged THEN LedgerAfterConsume(ledger, u, j, rpc) ELSE ledger
        /\ topup' = IF charged THEN TopupAfterConsume(topup, u, rpc) ELSE topup

consumeTranscriptionMinutes(u, j, m) ==
  /\ ConsumeCall(u, j, m)
  /\ UNCHANGED <<subscription, jobs, applied, credited, reqs, cancels,
                 refundCalls, refundRet, topupCalls, topupRet, worker, billing, lastUpdate>>

\* The rpc itself fails (storage unreachable): nothing is committed.
consumeTranscriptionMinutesError(u, j, m) ==
  /\ jobs[j].exists /\ jobs[j].userId = u
  /\ ~consumeRet[j].called
  /\ ~hasUnlimitedVideoAllowanceById(u) /\ ConsumeTierOk(subscription[u])
  /\ consumeRet' = [consumeRet EXCEPT ![j] = [called |-> TRUE, minutes |-> m]
                                             @@ FailureReturn("CONSUMPTION_FAILED")]
  /\ UNCHANGED <<subscription, jobs, ledger, topup, applied, credited, reqs, cancels,
                 refundCalls, refundRet, topupCalls, topupRet, worker, billing, lastUpdate>>

\* ------------------------------------------------ addTranscriptionTopupCredits
\* add_transcription_topup_credits: credits once per payment intent id.
\* Mutant: the payment intent id is not looked up.
TopupRpcResultNoLookup(bal, done, u, p, m) ==
  [success |-> TRUE, already_processed |-> FALSE, new_balance |-> bal[u] + m]

TopupRpcResult(bal, done, u, p, m) ==
  IF p \in done
  THEN [success |-> TRUE, already_processed |-> TRUE, new_balance |-> bal[u]]
  ELSE [success |-> TRUE, already_processed |-> FALSE, new_balance |-> bal[u] + m]

TopupReturn(rpc) ==
  [success |-> rpc.success, alreadyProcessed |-> rpc.already_processed,
   newBalance |-> rpc.new_balance, error |-> Null]

NoTopupRet == [success |-> FALSE, alreadyProcessed |-> FALSE, newBalance |-> 0, error |-> Null]

addTranscriptionTopupCredits(u, p, m) ==
  /\ topupCalls < MaxTopupCalls
  /\ topupCalls' = topupCalls + 1
  /\ LET rpc == TopupRpcResult(topup, applied, u, p, m)
     IN /\ topupRet' = [user |-> u, payment |-> p, minutes |-> m] @@ TopupReturn(rpc)
        /\ topup' = [topup EXCEPT ![u] = rpc.new_balance]
        /\ applied' = applied \cup {p}
        /\ credited' = IF rpc.already_processed THEN credited
                       ELSE [credited EXCEPT ![u] = @ + m]
  /\ UNCHANGED <<subscription, jobs, ledger, reqs, cancels, consumeRet,
                 refundCalls, refundRet, worker, billing, lastUpdate>>

\* The rpc itself fails: FAILED_TO_ADD_CREDITS, nothing is credited.
TopupFailedReturn ==
  [success |-> FALSE, alreadyProcessed |-> FALSE, newBalance |-> 0,
   error |-> "FAILED_TO_ADD_CREDITS"]

addTranscriptionTopupCreditsError(u, p, m) ==
  /\ topupCalls < MaxTopupCalls
  /\ topupCalls' = topupCalls + 1
  /\ topupRet' = [user |-> u, payment |-> p, minutes |-> m] @@ TopupFailedReturn
  /\ UNCHANGED <<subscription, jobs, ledger, topup, applied, credited, reqs, cancels,
                 consumeRet, refundCalls, refundRet, worker, billing, lastUpdate>>

\* ------------------------------------------------------------- billing system
\* The subscription service is external: a user's tier changes at any time.
SubscriptionChange(u, t) ==
  /\ subscription[u] # t
  /\ subscription' = [subscription EXCEPT ![u] = t]
  /\ UNCHANGED <<jobs, ledger, topup, applied, credited, reqs, cancels, consumeRet,
                 refundCalls, refundRet, topupCalls, topupRet, worker, billing, lastUpdate>>

\* ------------------------------------------------------- queries on job rows
ActiveJobsOf(u, v) ==
  {j \in JobIds : jobs[j].exists /\ jobs[j].userId = u /\ jobs[j].youtubeId = v
                  /\ jobs[j].status \in ActiveStatuses}

SetMax(S) == CHOOSE x \in S : \A y \in S : y <= x

\* getActiveTranscriptionJob: order by created_at descending, limit 1 (0: none).
getActiveTranscriptionJob(u, v) ==
  IF ActiveJobsOf(u, v) = {} THEN 0 ELSE SetMax(ActiveJobsOf(u, v))

\* canStartTranscription's own query ends in maybeSingle() with no limit: with
\* more than one matching row it yields an error and no data (0: no data).
ExistingJobQuery(u, v) ==
  IF Cardinality(ActiveJobsOf(u, v)) = 1 THEN CHOOSE j \in ActiveJobsOf(u, v) : TRUE ELSE 0

\* getCompletedTranscription: the completed rows of the video, of any user.
CompletedJobsOf(v) ==
  {j \in JobIds : jobs[j].exists /\ jobs[j].youtubeId = v /\ jobs[j].status = "completed"}

JobCount == Cardinality({j \in JobIds : jobs[j].exists})

\* ------------------------------------------------- getTranscriptionUsageStats
\* Mutant: the remaining allowance is not clamped at zero.
UsageStatsUnclamped(used, limit, topupMinutes) ==
  [used |-> used, limit |-> limit, remaining |-> limit - used,
   topupMinutes |-> topupMinutes,
   totalRemaining |-> limit - used + topupMinutes, isUnlimited |-> FALSE]

UsageStats(used, limit, topupMinutes) ==
  [used |-> used, limit |-> limit, remaining |-> Max(0, limit - used),
   topupMinutes |-> topupMinutes,
   totalRemaining |-> Max(0, limit - used) + topupMinutes, isUnlimited |-> FALSE]

\* What an unlimited user gets.
UnlimitedStats ==
  [used |-> 0, limit |-> UNLIMITED_MINUTES, remaining |-> UNLIMITED_MINUTES,
   topupMinutes |-> 0, totalRemaining |-> UNLIMITED_MINUTES, isUnlimited |-> TRUE]

\* ------------------------------------------------------ canStartTranscription
\* The last two checks, on the stats read.
\* Mutant: the flag is raised whenever a top-up balance exists.
CreditDecisionFlagsAnyTopup(stats, estimatedMinutes) ==
  IF stats.totalRemaining < estimatedMinutes
  THEN [allowed |-> FALSE, reason |-> "INSUFFICIENT_CREDITS", willUseTopup |-> FALSE]
  ELSE [allowed |-> TRUE, reason |-> "OK", willUseTopup |-> stats.topupMinutes > 0]

\* Mutant: a request for exactly what is left is turned away.
CreditDecisionOffByOne(stats, estimatedMinutes) ==
  IF stats.totalRemaining <= estimatedMinutes
  THEN [allowed |-> FALSE, reason |-> "INSUFFICIENT_CREDITS", willUseTopup |-> FALSE]
  ELSE [allowed |-> TRUE, reason |-> "OK",
        willUseTopup |-> stats.remaining < estimatedMinutes /\ stats.topupMinutes > 0]

CreditDecision(stats, estimatedMinutes) ==
  IF stats.totalRemaining < estimatedMinutes
  THEN [allowed |-> FALSE, reason |-> "INSUFFICIENT_CREDITS", willUseTopup |-> FALSE]
  ELSE [allowed |-> TRUE, reason |-> "OK",
        willUseTopup |-> stats.remaining < estimatedMinutes /\ stats.topupMinutes > 0]

\* TranscriptionDecision; minutesNeeded -1 and hasStats FALSE stand for absent.
NoDecision == [allowed |-> FALSE, reason |-> Null, unlimited |-> FALSE, existingJobId |-> 0,
               hasStats |-> FALSE, stats |-> UsageStats(0, 0, 0), minutesNeeded |-> -1,
               willUseTopup |-> FALSE]

\* Mutant: the override admits only what a pro allowance would cover.
DecisionUnlimitedWithinLimit(estimatedMinutes) ==
  IF estimatedMinutes <= TRANSCRIPTION_LIMITS_pro
  THEN [NoDecision EXCEPT !.allowed = TRUE, !.reason = "OK", !.unlimited = TRUE,
                          !.minutesNeeded = estimatedMinutes]
  ELSE [NoDecision EXCEPT !.reason = "INSUFFICIENT_CREDITS",
                          !.minutesNeeded = estimatedMinutes]

DecisionUnlimited(estimatedMinutes) ==
  [NoDecision EXCEPT !.allowed = TRUE, !.reason = "OK", !.unlimited = TRUE,
                     !.minutesNeeded = estimatedMinutes]

DecisionRejected(reason) == [NoDecision EXCEPT !.reason = reason]

DecisionExistingJob(j) == [NoDecision EXCEPT !.reason = "EXISTING_JOB", !.existingJobId = j]

DecisionOnStats(stats, estimatedMinutes) ==
  LET d == CreditDecision(stats, estimatedMinutes)
  IN [NoDecision EXCEPT !.allowed = d.allowed, !.reason = d.reason, !.hasStats = TRUE,
                        !.stats = stats, !.minutesNeeded = estimatedMinutes,
                        !.willUseTopup = d.willUseTopup]

\* ----------------------------------------------------- POST /api/transcribe
\* One call in flight: the route handler ("handler"), or a direct call of
\* canStartTranscription ("canStart") or getTranscriptionUsageStats ("stats").
IdleReq == [pc |-> "idle", mode |-> "handler", user |-> Null, video |-> Null, minutes |-> 0,
            used |-> 0, usageError |-> FALSE, response |-> Null, reason |-> Null, jobId |-> 0,
            willUseTopup |-> FALSE, decision |-> NoDecision,
            creditAtCall |-> 0, writesAtCall |-> 0]

ReqFrame == UNCHANGED <<subscription, jobs, ledger, topup, applied, credited, cancels,
                        consumeRet, refundCalls, refundRet, topupCalls, topupRet, worker, billing, lastUpdate>>

\* The response is sent and the handler's locals are gone.
Respond(r, response, reason, jobId) ==
  reqs' = [reqs EXCEPT ![r] = [IdleReq EXCEPT !.pc = "done", !.response = response,
                                              !.reason = reason, !.jobId = jobId,
                                              !.willUseTopup = reqs[r].willUseTopup]]

Goto(r, pc) == reqs' = [reqs EXCEPT ![r] = [@ EXCEPT !.pc = pc]]

\* A direct call returns d to its caller.
Return(r, d) == reqs' = [reqs EXCEPT ![r] = [@ EXCEPT !.pc = "decided", !.used = 0,
                                                      !.decision = d]]

\* canStartTranscription returns d: to its direct caller, or to the handler,
\* which answers a rejection and goes on to create the job otherwise.
\* Mutant: the handler goes on to create the job whatever was decided.
DecideIgnoringRejection(r, d) ==
  IF reqs[r].mode = "canStart" THEN Return(r, d)
  ELSE reqs' = [reqs EXCEPT ![r] = [@ EXCEPT !.pc = "create", !.decision = d,
                                            !.willUseTopup = d.willUseTopup]]

Decide(r, d) ==
  IF reqs[r].mode = "canStart" THEN Return(r, d)
  ELSE IF d.allowed
       THEN reqs' = [reqs EXCEPT ![r] = [@ EXCEPT !.pc = "create", !.decision = d,
                                                 !.willUseTopup = d.willUseTopup]]
       ELSE Respond(r, "rejected", d.reason, d.existingJobId)

\* getTranscriptionUsageStats returns stats (or null): to its direct caller, or
\* to canStartTranscription, which decides on them.
StatsReturn(r, hasStats, stats) ==
  IF reqs[r].mode = "stats"
  THEN Return(r, [NoDecision EXCEPT !.hasStats = hasStats, !.stats = stats])
  ELSE Decide(r, IF hasStats THEN DecisionOnStats(stats, reqs[r].minutes)
                 ELSE DecisionRejected("NO_SUBSCRIPTION"))

\* The next call slot in order: slot r is used only after slot r - 1.
SlotFree(r) == reqs[r].pc = "idle" /\ (IF r = 1 THEN TRUE ELSE reqs[r - 1].pc # "idle")

\* A direct call of canStartTranscription.
canStartTranscription(r, u, v, m) ==
  /\ SlotFree(r)
  /\ reqs' = [reqs EXCEPT ![r] = [@ EXCEPT !.pc = "canStart", !.mode = "canStart",
                                            !.user = u, !.video = v, !.minutes = m]]
  /\ ReqFrame

\* A direct call of getTranscriptionUsageStats (GET /api/transcription-usage).
getTranscriptionUsageStats(r, u) ==
  /\ SlotFree(r)
  /\ reqs' = [reqs EXCEPT ![r] = [@ EXCEPT !.pc = "statsSub", !.mode = "stats", !.user = u]]
  /\ ReqFrame

\* Mutant: only the requester's own completed job counts.
HandlerGetCompletedOwnOnly(r, u, v, m, j) ==
  /\ SlotFree(r)
  /\ IF CompletedJobsOf(v) = {} THEN j = 0 ELSE j \in CompletedJobsOf(v)
  /\ IF j # 0 /\ jobs[j].transcriptData # Null /\ jobs[j].userId = u
     THEN Respond(r, "completed", Null, j)
     ELSE reqs' = [reqs EXCEPT ![r] = [@ EXCEPT !.pc = "getActive", !.user = u,
                                               !.video = v, !.minutes = m]]
  /\ ReqFrame

\* Calls so far that may have written the ledger or a balance.
LedgerWrites ==
  topupCalls + refundCalls + Cardinality({j \in JobIds : consumeRet[j].called})

\* The same call, with the caller noting what the storage held when it called:
\* the credit of u and the number of writing calls so far.
getTranscriptionUsageStatsTracked(r, u) ==
  /\ SlotFree(r)
  /\ reqs' = [reqs EXCEPT ![r] = [@ EXCEPT
                !.pc = "statsSub", !.mode = "stats", !.user = u,
                !.creditAtCall = Max(0, TRANSCRIPTION_LIMITS_pro
                                          - get_transcription_usage_in_period(ledger, u))
                                 + topup[u],
                !.writesAtCall = LedgerWrites]]
  /\ ReqFrame

\* The request arrives and getCompletedTranscription is read; job 0 stands for no row.
HandlerGetCompleted(r, u, v, m, j) ==
  /\ SlotFree(r)
  /\ IF CompletedJobsOf(v) = {} THEN j = 0 ELSE j \in CompletedJobsOf(v)
  /\ IF j # 0 /\ jobs[j].transcriptData # Null
     THEN Respond(r, "completed", Null, j)
     ELSE reqs' = [reqs EXCEPT ![r] = [@ EXCEPT !.pc = "getActive", !.user = u,
                                               !.video = v, !.minutes = m]]
  /\ ReqFrame

HandlerGetActive(r) ==
  /\ reqs[r].pc = "getActive"
  /\ LET j == getActiveTranscriptionJob(reqs[r].user, reqs[r].video)
     IN IF j # 0 THEN Respond(r, "existing", Null, j) ELSE Goto(r, "canStart")
  /\ ReqFrame

\* canStartTranscription: unlimited override, then the subscription read.
\* Mutant: any subscription passes, whatever its tier.
HandlerCanStartAnyTier(r) ==
  /\ reqs[r].pc = "canStart"
  /\ LET u == reqs[r].user
     IN IF hasUnlimitedVideoAllowanceById(u) THEN Decide(r, DecisionUnlimited(reqs[r].minutes))
        ELSE IF subscription[u] = "none" THEN Decide(r, DecisionRejected("NO_SUBSCRIPTION"))
        ELSE Goto(r, "existingJob")
  /\ ReqFrame

HandlerCanStart(r) ==
  /\ reqs[r].pc = "canStart"
  /\ LET u == reqs[r].user
     IN IF hasUnlimitedVideoAllowanceById(u) THEN Decide(r, DecisionUnlimited(reqs[r].minutes))
        ELSE IF subscription[u] = "none" THEN Decide(r, DecisionRejected("NO_SUBSCRIPTION"))
        ELSE IF subscription[u] # "pro" THEN Decide(r, DecisionRejected("NOT_PRO"))
        ELSE Goto(r, "existingJob")
  /\ ReqFrame

HandlerExistingJob(r) ==
  /\ reqs[r].pc = "existingJob"
  /\ LET j == ExistingJobQuery(reqs[r].user, reqs[r].video)
     IN IF j # 0 THEN Decide(r, DecisionExistingJob(j)) ELSE Goto(r, "statsSub")
  /\ ReqFrame

\* getTranscriptionUsageStats: the unlimited override, then its own read of
\* the subscription.
HandlerStatsSubscription(r) ==
  /\ reqs[r].pc = "statsSub"
  /\ LET u == reqs[r].user
     IN IF hasUnlimitedVideoAllowanceById(u)
        THEN StatsReturn(r, TRUE, UnlimitedStats)
        ELSE IF subscription[u] = "none" THEN StatsReturn(r, FALSE, UsageStats(0, 0, 0))
        ELSE IF subscription[u] # "pro" THEN StatsReturn(r, TRUE, UsageStats(0, 0, 0))
        ELSE Goto(r, "usage")
  /\ ReqFrame

HandlerReadUsage(r) ==
  /\ reqs[r].pc = "usage"
  /\ reqs' = [reqs EXCEPT ![r] = [@ EXCEPT
                !.pc = "topup",
                !.used = get_transcription_usage_in_period(ledger, reqs[r].user)]]
  /\ ReqFrame

\* usageError is logged and the missing data counts as 0.
HandlerReadUsageError(r) ==
  /\ reqs[r].pc = "usage"
  /\ reqs' = [reqs EXCEPT ![r] = [@ EXCEPT !.pc = "topup", !.used = 0, !.usageError = TRUE]]
  /\ ReqFrame

\* Mutant: the top-up minutes an admission counts on are taken at once.
HandlerReadTopupReserving(r) ==
  /\ reqs[r].pc = "topup"
  /\ StatsReturn(r, TRUE, UsageStats(reqs[r].used, TRANSCRIPTION_LIMITS_pro,
                                     topup[reqs[r].user]))
  /\ topup' = [topup EXCEPT ![reqs[r].user] =
                 Max(0, @ - Max(0, reqs[r].minutes
                                     - Max(0, TRANSCRIPTION_LIMITS_pro - reqs[r].used)))]
  /\ UNCHANGED <<subscription, jobs, ledger, applied, credited, cancels,
                 consumeRet, refundCalls, refundRet, topupCalls, topupRet, worker, billing, lastUpdate>>

HandlerReadTopup(r) ==
  /\ reqs[r].pc = "topup"
  /\ StatsReturn(r, TRUE, UsageStats(reqs[r].used, TRANSCRIPTION_LIMITS_pro,
                                     topup[reqs[r].user]))
  /\ ReqFrame

\* createTranscriptionJob: an unconditional insert of a pending row.
NewJob(u, v) == [exists |-> TRUE, userId |-> u, youtubeId |-> v, status |-> "pending",
                 progress |-> 0, errorMessage |-> Null, transcriptData |-> Null]

InsertJob(u, v) == jobs' = [jobs EXCEPT ![JobCount + 1] = NewJob(u, v)]

\* A direct call of createTranscriptionJob, by any caller.
createTranscriptionJob(u, v) ==
  /\ JobCount < MaxJobs
  /\ InsertJob(u, v)
  /\ UNCHANGED <<subscription, ledger, topup, applied, credited, reqs, cancels, consumeRet,
                 refundCalls, refundRet, topupCalls, topupRet, worker, billing, lastUpdate>>

HandlerCreate(r) ==
  /\ reqs[r].pc = "create"
  /\ JobCount < MaxJobs
  /\ InsertJob(reqs[r].user, reqs[r].video)
  /\ Respond(r, "pending", Null, JobCount + 1)
  /\ UNCHANGED <<subscription, ledger, topup, applied, credited, cancels, consumeRet,
                 refundCalls, refundRet, topupCalls, topupRet, worker, billing, lastUpdate>>

HandlerCreateError(r) ==
  /\ reqs[r].pc = "create"
  /\ Respond(r, "error", "FAILED_TO_CREATE_JOB", 0)
  /\ ReqFrame

\* ------------------------------------------- POST /api/transcribe/process
\* The background run that finishes a job.  Complete: the job is set to
\* completed with its transcript and the minutes are consumed; when the
\* consume is turned down the job is set to failed with the reason.  Fail:
\* the job is set to failed with the error.  A failed job is refunded.  The
\* run does not stop for a cancel that lands between its steps.
WorkerGoto(j, pc) == worker' = [worker EXCEPT ![j] = pc]

\* A stage of the pipeline starts.
WorkerAdvance(j) ==
  /\ worker[j] = "idle"
  /\ jobs[j].exists
  /\ jobs[j].status # "transcribing"
  /\ UpdateCall(j, Patch("transcribing", -1, Unset, Unset))
  /\ UNCHANGED <<subscription, ledger, topup, applied, credited, reqs, cancels, consumeRet,
                 refundCalls, refundRet, topupCalls, topupRet, worker, billing, lastUpdate>>

WorkerComplete(j) ==
  /\ worker[j] = "idle"
  /\ jobs[j].exists
  /\ UpdateCall(j, Patch("completed", -1, Unset, "transcript"))
  /\ WorkerGoto(j, "consume")
  /\ UNCHANGED <<subscription, ledger, topup, applied, credited, reqs, cancels, consumeRet,
                 refundCalls, refundRet, topupCalls, topupRet, billing, lastUpdate>>

\* Mutant: the run ends whatever the consume returned.
WorkerConsumeIgnoringResult(j, m) ==
  /\ worker[j] = "consume"
  /\ ConsumeCall(jobs[j].userId, j, m)
  /\ WorkerGoto(j, "done")
  /\ UNCHANGED <<subscription, jobs, applied, credited, reqs, cancels,
                 refundCalls, refundRet, topupCalls, topupRet, billing, lastUpdate>>

WorkerConsume(j, m) ==
  /\ worker[j] = "consume"
  /\ ConsumeCall(jobs[j].userId, j, m)
  /\ WorkerGoto(j, IF consumeRet'[j].success THEN "done" ELSE "fail")
  /\ UNCHANGED <<subscription, jobs, applied, credited, reqs, cancels,
                 refundCalls, refundRet, topupCalls, topupRet, billing, lastUpdate>>

\* The job is set to failed with the reason the consume gave.
WorkerFailUnpaid(j) ==
  /\ worker[j] = "fail"
  /\ UpdateCall(j, Patch("failed", -1, consumeRet[j].error, Unset))
  /\ WorkerGoto(j, "refund")
  /\ UNCHANGED <<subscription, ledger, topup, applied, credited, reqs, cancels, consumeRet,
                 refundCalls, refundRet, topupCalls, topupRet, billing, lastUpdate>>

\* The pipeline fails before the job is complete.
WorkerFail(j) ==
  /\ worker[j] = "idle"
  /\ jobs[j].exists
  /\ UpdateCall(j, Patch("failed", -1, "error", Unset))
  /\ WorkerGoto(j, "refund")
  /\ UNCHANGED <<subscription, ledger, topup, applied, credited, reqs, cancels, consumeRet,
                 refundCalls, refundRet, topupCalls, topupRet, billing, lastUpdate>>

WorkerRefund(j) ==
  /\ worker[j] = "refund"
  /\ RefundCommit(j)
  /\ WorkerGoto(j, "done")
  /\ UNCHANGED <<subscription, jobs, applied, credited, reqs, cancels, consumeRet,
                 refundCalls, refundRet, topupCalls, topupRet, billing, lastUpdate>>

WorkerRefundError(j) ==
  /\ worker[j] = "refund"
  /\ WorkerGoto(j, "done")
  /\ UNCHANGED <<subscription, jobs, ledger, topup, applied, credited, reqs, cancels,
                 consumeRet, refundCalls, refundRet, topupCalls, topupRet, billing, lastUpdate>>

\* The fire-and-forget request that starts the run for a new job is lost
\* (.catch logs the error): no run is ever started for the job.
TriggerFailed(j) ==
  /\ worker[j] = "idle"
  /\ jobs[j].exists /\ jobs[j].status = "pending"
  /\ WorkerGoto(j, "lost")
  /\ UNCHANGED <<subscription, jobs, ledger, topup, applied, credited, reqs, cancels,
                 consumeRet, refundCalls, refundRet, topupCalls, topupRet, billing, lastUpdate>>

\* Any step of the run for job j.
WorkerRun(j) ==
  \/ WorkerAdvance(j)
  \/ WorkerComplete(j)
  \/ \E m \in MinuteChoices : WorkerConsume(j, m)
  \/ WorkerFailUnpaid(j)
  \/ WorkerFail(j)
  \/ WorkerRefund(j)
  \/ WorkerRefundError(j)

WorkerNext ==
  \/ \E j \in JobIds : WorkerAdvance(j)
  \/ \E j \in JobIds : WorkerComplete(j)
  \/ \E j \in JobIds, m \in MinuteChoices : WorkerConsume(j, m)
  \/ \E j \in JobIds : WorkerFailUnpaid(j)
  \/ \E j \in JobIds : WorkerFail(j)
  \/ \E j \in JobIds : WorkerRefund(j)
  \/ \E j \in JobIds : WorkerRefundError(j)

\* ------------------------------------------------------ resolveBillingPeriod
\* A UserSubscription as far as the resolver reads it; a date that is null is NoDate.
NoDate == -1000

UserSubscription(tier, currentPeriodStart, currentPeriodEnd, userCreatedAt) ==
  [tier |-> tier, currentPeriodStart |-> currentPeriodStart,
   currentPeriodEnd |-> currentPeriodEnd, userCreatedAt |-> userCreatedAt]

\* Mutant: the provider's dates are not used; the period is recomputed.
resolveBillingPeriodRecomputed(sub, now) ==
  IF sub.userCreatedAt # NoDate
  THEN LET signupTime == sub.userCreatedAt
           elapsedMs == now - signupTime
           cycleNumber == elapsedMs \div THIRTY_DAYS_MS
           periodStartMs == signupTime + cycleNumber * THIRTY_DAYS_MS
       IN [start |-> periodStartMs, end |-> periodStartMs + THIRTY_DAYS_MS]
  ELSE [start |-> now - THIRTY_DAYS_MS, end |-> now]

\* Mutant: the cycle number is cut off toward zero, not rounded down.
resolveBillingPeriodTruncating(sub, now) ==
  IF sub.tier = "pro" /\ sub.currentPeriodStart # NoDate /\ sub.currentPeriodEnd # NoDate
  THEN [start |-> sub.currentPeriodStart, end |-> sub.currentPeriodEnd]
  ELSE IF sub.userCreatedAt # NoDate
  THEN LET signupTime == sub.userCreatedAt
           elapsedMs == now - signupTime
           cycleNumber == IF elapsedMs >= 0 THEN elapsedMs \div THIRTY_DAYS_MS
                          ELSE 0 - ((0 - elapsedMs) \div THIRTY_DAYS_MS)
           periodStartMs == signupTime + cycleNumber * THIRTY_DAYS_MS
       IN [start |-> periodStartMs, end |-> periodStartMs + THIRTY_DAYS_MS]
  ELSE [start |-> now - THIRTY_DAYS_MS, end |-> now]

\* Mutant: the window runs thirty days from now on.
resolveBillingPeriodFromNow(sub, now) ==
  IF sub.tier = "pro" /\ sub.currentPeriodStart # NoDate /\ sub.currentPeriodEnd # NoDate
  THEN [start |-> sub.currentPeriodStart, end |-> sub.currentPeriodEnd]
  ELSE IF sub.userCreatedAt # NoDate
  THEN LET signupTime == sub.userCreatedAt
           elapsedMs == now - signupTime
           cycleNumber == elapsedMs \div THIRTY_DAYS_MS
           periodStartMs == signupTime + cycleNumber * THIRTY_DAYS_MS
       IN [start |-> periodStartMs, end |-> now + THIRTY_DAYS_MS]
  ELSE [start |-> now - THIRTY_DAYS_MS, end |-> now]

resolveBillingPeriod(sub, now) ==
  IF sub.tier = "pro" /\ sub.currentPeriodStart # NoDate /\ sub.currentPeriodEnd # NoDate
  THEN [start |-> sub.currentPeriodStart, end |-> sub.currentPeriodEnd]
  ELSE IF sub.userCreatedAt # NoDate
  THEN LET signupTime == sub.userCreatedAt
           currentTime == now
           elapsedMs == currentTime - signupTime
           cycleNumber == elapsedMs \div THIRTY_DAYS_MS      \* Math.floor
           periodStartMs == signupTime + cycleNumber * THIRTY_DAYS_MS
           periodEndMs == periodStartMs + THIRTY_DAYS_MS
       IN [start |-> periodStartMs, end |-> periodEndMs]
  ELSE [start |-> now - THIRTY_DAYS_MS, end |-> now]

NoPeriod == [start |-> NoDate, end |-> NoDate]

\* The subscriptions and the instants the resolver is called with.
Instants == -31..61
Subscriptions ==
  {UserSubscription(t, s, e, c) :
     t \in {"free", "pro"}, s \in {NoDate, 10}, e \in {NoDate, 40}, c \in {NoDate, 0, 7}}

NoBilling == [sub |-> UserSubscription("free", NoDate, NoDate, NoDate), now |-> 0,
              ret |-> NoPeriod, called |-> FALSE]

\* A caller resolves the period of its subscription at the instant now.
ResolveCall(now) ==
  /\ billing' = [billing EXCEPT !.now = now, !.ret = resolveBillingPeriod(billing.sub, now),
                                !.called = TRUE]
  /\ UNCHANGED <<subscription, jobs, ledger, topup, applied, credited, reqs, cancels,
                 consumeRet, refundCalls, refundRet, topupCalls, topupRet, worker, lastUpdate>>

\* ------------------------------------------------------------ specification
Init ==
  /\ subscription = [u \in Users |-> IF u \in UnlimitedUsers THEN "none" ELSE "pro"]
  /\ jobs = [j \in JobIds |-> NoJob]
  /\ ledger = [j \in JobIds |-> NoEntry]
  /\ topup = [u \in Users |-> 0]
  /\ applied = {}
  /\ credited = [u \in Users |-> 0]
  /\ reqs = [r \in ReqIds |-> IdleReq]
  /\ cancels = [c \in CancelIds |-> IdleCancel]
  /\ consumeRet = [j \in JobIds |-> NoConsumeRet]
  /\ refundCalls = 0
  /\ refundRet = [job |-> 0] @@ NoRefundRet
  /\ topupCalls = 0
  /\ topupRet = [user |-> Null, payment |-> Null, minutes |-> 0] @@ NoTopupRet
  /\ worker = [j \in JobIds |-> "idle"]
  /\ billing = NoBilling
  /\ lastUpdate = NoUpdate

\* The handler, one await per step.
HandlerNext ==
  \/ \E r \in ReqIds, u \in Users, v \in Videos, m \in MinuteChoices, j \in JobIds \cup {0} :
        HandlerGetCompleted(r, u, v, m, j)
  \/ \E r \in ReqIds : HandlerGetActive(r)
  \/ \E r \in ReqIds : HandlerCanStart(r)
  \/ \E r \in ReqIds : HandlerExistingJob(r)
  \/ \E r \in ReqIds : HandlerStatsSubscription(r)
  \/ \E r \in ReqIds : HandlerReadUsage(r)
  \/ \E r \in ReqIds : HandlerReadUsageError(r)
  \/ \E r \in ReqIds : HandlerReadTopup(r)
  \/ \E r \in ReqIds : HandlerCreate(r)
  \/ \E r \in ReqIds : HandlerCreateError(r)

CancelNext ==
  \/ \E c \in CancelIds, j \in JobIds : CancelUpdate(c, j)
  \/ \E c \in CancelIds, j \in JobIds : CancelUpdateError(c, j)
  \/ \E c \in CancelIds : CancelRefund(c)
  \/ \E c \in CancelIds : CancelRefundError(c)

\* Job lifecycle: concurrent start requests, the worker's status updates, a
\* cancel, and the billing system changing the metered user's tier.  No minutes
\* are consumed here, so the ledger stays empty.
Next ==
  \/ HandlerNext
  \/ CancelNext
  \/ \E j \in JobIds, p \in Patches : updateTranscriptionJobStatus(j, p)
  \/ \E j \in JobIds : updateTranscriptionJobStatusError(j)
  \/ \E u \in MeteredUsers, t \in Tiers : SubscriptionChange(u, t)

Spec == Init /\ [][Next]_vars

\* Credit ledger: jobs are created and completed directly, and consume, refund,
\* cancel and top-up run in any order.  The handler and the stage updates are
\* left out: they write neither the ledger nor the balances, and no ledger
\* operation reads what they write.
NextLedger ==
  \/ \E u \in Users, v \in Videos : createTranscriptionJob(u, v)
  \/ \E j \in JobIds : updateTranscriptionJobStatus(j, Patch("completed", -1, Unset, "transcript"))
  \/ \E u \in Users, j \in JobIds, m \in MinuteChoices : consumeTranscriptionMinutes(u, j, m)
  \/ \E u \in Users, j \in JobIds, m \in MinuteChoices : consumeTranscriptionMinutesError(u, j, m)
  \/ \E j \in JobIds : refundTranscriptionMinutes(j)
  \/ \E j \in JobIds : refundTranscriptionMinutesError(j)
  \/ CancelNext
  \/ \E u \in Users, m \in TopupChoices :
        topupCalls < LedgerTopupCalls /\ addTranscriptionTopupCredits(u, "pi_1", m)
  \/ \E u \in MeteredUsers, t \in Tiers : SubscriptionChange(u, t)

SpecLedger == Init /\ [][NextLedger]_vars

\* Top-up ingestion: payment events arrive, possibly replayed and possibly for
\* different users, while a job of the credited user is created and consumed.
NextTopup ==
  \/ \E u \in Users, p \in PaymentIds, m \in ReplayMinutes : addTranscriptionTopupCredits(u, p, m)
  \/ \E u \in Users, p \in PaymentIds, m \in ReplayMinutes :
        addTranscriptionTopupCreditsError(u, p, m)
  \/ \E v \in Videos : JobCount < 1 /\ createTranscriptionJob("u1", v)
  \/ \E j \in JobIds : consumeTranscriptionMinutes("u1", j, 100)
  \/ \E j \in JobIds : consumeTranscriptionMinutes("u1", j, 150)

SpecTopup == Init /\ [][NextTopup]_vars

\* The steps of canStartTranscription and getTranscriptionUsageStats, one await
\* per step.
DecisionSteps(slots) ==
  \/ \E r \in slots : HandlerCanStart(r)
  \/ \E r \in slots : HandlerExistingJob(r)
  \/ \E r \in slots : HandlerStatsSubscription(r)
  \/ \E r \in slots : HandlerReadUsage(r)
  \/ \E r \in slots : HandlerReadUsageError(r)
  \/ \E r \in slots : HandlerReadTopup(r)

\* Admission: direct calls of canStartTranscription and getTranscriptionUsageStats
\* against storage that other callers change meanwhile: jobs created and
\* completed, minutes consumed, an unlimited user's job refunded, a top-up
\* credited, the tier changed.
NextDecision ==
  \/ \E r \in 1..DecisionCalls, u \in Users, v \in Videos, m \in EstimateChoices :
        canStartTranscription(r, u, v, m)
  \/ \E r \in 1..DecisionCalls, u \in Users : getTranscriptionUsageStats(r, u)
  \/ DecisionSteps(1..DecisionCalls)
  \/ \E u \in Users, v \in Videos : createTranscriptionJob(u, v)
  \/ \E j \in JobIds : updateTranscriptionJobStatus(j, Patch("completed", -1, Unset, "transcript"))
  \/ \E u \in Users, j \in JobIds, m \in MinuteChoices : consumeTranscriptionMinutes(u, j, m)
  \/ \E j \in JobIds :
        /\ jobs[j].exists /\ jobs[j].userId \in UnlimitedUsers
        /\ refundCalls < DecisionRefundCalls
        /\ refundTranscriptionMinutes(j)
  \/ \E u \in Users, m \in TopupChoices :
        topupCalls < LedgerTopupCalls /\ addTranscriptionTopupCredits(u, "pi_1", m)
  \/ \E u \in MeteredUsers, t \in Tiers : SubscriptionChange(u, t)
  \/ \E u \in UnlimitedUsers : SubscriptionChange(u, "pro")

SpecDecision == Init /\ [][NextDecision]_vars

\* Concurrent admission: two calls of canStartTranscription or
\* getTranscriptionUsageStats for the metered user run side by side while a job
\* is created and consumed and a top-up is credited.
NextAdmission ==
  \/ \E r \in ReqIds, v \in Videos, m \in MinuteChoices : canStartTranscription(r, "u1", v, m)
  \/ \E r \in ReqIds : getTranscriptionUsageStats(r, "u1")
  \/ DecisionSteps(ReqIds)
  \/ \E v \in Videos : createTranscriptionJob("u1", v)
  \/ \E j \in JobIds : updateTranscriptionJobStatus(j, Patch("completed", -1, Unset, "transcript"))
  \/ \E j \in JobIds, m \in MinuteChoices : consumeTranscriptionMinutes("u1", j, m)
  \/ \E m \in TopupChoices :
        topupCalls < LedgerTopupCalls /\ addTranscriptionTopupCredits("u1", "pi_1", m)

SpecAdmission == Init /\ [][NextAdmission]_vars

\* Finishing jobs: jobs are created, the background run completes or fails
\* each of them and charges for it, while the user cancels a job, a top-up is
\* credited and the metered user's tier changes.
NextWorker ==
  \/ \E u \in Users, v \in Videos : createTranscriptionJob(u, v)
  \/ WorkerNext
  \/ CancelNext
  \/ \E u \in Users, m \in TopupChoices :
        topupCalls < LedgerTopupCalls /\ addTranscriptionTopupCredits(u, "pi_1", m)
  \/ \E u \in MeteredUsers, t \in Tiers : SubscriptionChange(u, t)

SpecWorker == Init /\ [][NextWorker]_vars

\* The period resolver alone, called again and again for one subscription.
InitPeriod ==
  /\ subscription = [u \in Users |-> IF u \in UnlimitedUsers THEN "none" ELSE "pro"]
  /\ jobs = [j \in JobIds |-> NoJob]
  /\ ledger = [j \in JobIds |-> NoEntry]
  /\ topup = [u \in Users |-> 0]
  /\ applied = {}
  /\ credited = [u \in Users |-> 0]
  /\ reqs = [r \in ReqIds |-> IdleReq]
  /\ cancels = [c \in CancelIds |-> IdleCancel]
  /\ consumeRet = [j \in JobIds |-> NoConsumeRet]
  /\ refundCalls = 0
  /\ refundRet = [job |-> 0] @@ NoRefundRet
  /\ topupCalls = 0
  /\ topupRet = [user |-> Null, payment |-> Null, minutes |-> 0] @@ NoTopupRet
  /\ worker = [j \in JobIds |-> "idle"]
  /\ \E sub \in Subscriptions : billing = [NoBilling EXCEPT !.sub = sub]
  /\ lastUpdate = NoUpdate

NextPeriod == \E now \in Instants : ResolveCall(now)

SpecPeriod == InitPeriod /\ [][NextPeriod]_vars

\* The top-up balance of the metered user under everything that runs for them:
\* a decision call, job creation, the background run, a cancel and a top-up.
NextBalance ==
  \/ \E v \in Videos, m \in MinuteChoices : canStartTranscription(1, "u1", v, m)
  \/ DecisionSteps({1})
  \/ \E v \in Videos : createTranscriptionJob("u1", v)
  \/ WorkerNext
  \/ CancelNext
  \/ \E m \in TopupChoices :
        topupCalls < LedgerTopupCalls /\ addTranscriptionTopupCredits("u1", "pi_1", m)

SpecBalance == Init /\ [][NextBalance]_vars

\* Start requests of the metered user while jobs of the other user are created
\* and driven by the pipeline.
NextCache ==
  \/ \E r \in ReqIds, v \in Videos, m \in MinuteChoices, j \in JobIds \cup {0} :
        HandlerGetCompleted(r, "u1", v, m, j)
  \/ \E r \in ReqIds : HandlerGetActive(r)
  \/ \E r \in ReqIds : HandlerCanStart(r)
  \/ \E r \in ReqIds : HandlerExistingJob(r)
  \/ \E r \in ReqIds : HandlerStatsSubscription(r)
  \/ \E r \in ReqIds : HandlerReadUsage(r)
  \/ \E r \in ReqIds : HandlerReadUsageError(r)
  \/ \E r \in ReqIds : HandlerReadTopup(r)
  \/ \E r \in ReqIds : HandlerCreate(r)
  \/ \E r \in ReqIds : HandlerCreateError(r)
  \/ \E v \in Videos : JobCount < 1 /\ createTranscriptionJob("u2", v)
  \/ \E j \in JobIds, p \in Patches : updateTranscriptionJobStatus(j, p)

SpecCache == Init /\ [][NextCache]_vars

\* Start requests of the metered user and the runs they trigger, each run
\* taking its steps sooner or later unless its trigger was lost.
NextLive ==
  \/ \E r \in ReqIds, v \in Videos, m \in MinuteChoices, j \in JobIds \cup {0} :
        HandlerGetCompleted(r, "u1", v, m, j)
  \/ \E r \in ReqIds : HandlerGetActive(r)
  \/ \E r \in ReqIds : HandlerCanStart(r)
  \/ \E r \in ReqIds : HandlerExistingJob(r)
  \/ \E r \in ReqIds : HandlerStatsSubscription(r)
  \/ \E r \in ReqIds : HandlerReadUsage(r)
  \/ \E r \in ReqIds : HandlerReadUsageError(r)
  \/ \E r \in ReqIds : HandlerReadTopup(r)
  \/ \E r \in ReqIds : HandlerCreate(r)
  \/ \E r \in ReqIds : HandlerCreateError(r)
  \/ \E j \in JobIds : WorkerRun(j)
  \/ \E j \in JobIds : TriggerFailed(j)

SpecLive == Init /\ [][NextLive]_vars /\ \A j \in JobIds : WF_vars(WorkerRun(j))

\* One call of getTranscriptionUsageStats for the metered user while jobs of
\* theirs are consumed and refunded and a top-up is credited.
NextTorn ==
  \/ getTranscriptionUsageStatsTracked(1, "u1")
  \/ HandlerStatsSubscription(1)
  \/ HandlerReadUsage(1)
  \/ HandlerReadUsageError(1)
  \/ HandlerReadTopup(1)
  \/ \E v \in Videos : createTranscriptionJob("u1", v)
  \/ \E j \in JobIds, m \in MinuteChoices : consumeTranscriptionMinutes("u1", j, m)
  \/ \E j \in JobIds : refundCalls < DecisionRefundCalls /\ refundTranscriptionMinutes(j)
  \/ \E m \in TopupChoices :
        topupCalls < LedgerTopupCalls /\ addTranscriptionTopupCredits("u1", "pi_1", m)

SpecTorn == Init /\ [][NextTorn]_vars

\* Updates of one job row, in any order and with any fields supplied.
NextPatch ==
  \/ \E u \in MeteredUsers, v \in Videos : JobCount < 1 /\ createTranscriptionJob(u, v)
  \/ \E j \in JobIds, p \in SparsePatches : updateTranscriptionJobStatusTracked(j, p)

SpecPatch == Init /\ [][NextPatch]_vars

\* ================================================================== claims

\* C1: once a job's status is completed, failed or cancelled, no later
\* operation changes its status.
TerminalStatusIsFinal ==
  [][\A j \in JobIds :
       (jobs[j].exists /\ jobs[j].status \in TerminalStatuses)
         => jobs'[j].status = jobs[j].status]_vars

\* The step in which cancel call c performs its conditional update.
CancelWriteStep(c) == cancels[c].pc = "idle" /\ cancels'[c].pc = "refund"

\* C2: the cancel's write sets status cancelled and the cancellation message
\* exactly when the row's status at that moment is pending, downloading or
\* transcribing; otherwise every job row is left as it was.
CancelWritesOnlyActiveJobs ==
  [][\A c \in CancelIds :
       CancelWriteStep(c) =>
         LET j == cancels'[c].job
         IN IF jobs[j].exists /\ jobs[j].status \in {"pending", "downloading", "transcribing"}
            THEN jobs' = [jobs EXCEPT ![j] = [@ EXCEPT !.status = "cancelled",
                                                       !.errorMessage = "Cancelled by user"]]
            ELSE jobs' = jobs]_vars

\* C2 witness: a cancel wrote after the completion and the row is still the
\* completed one, transcript attached and no error message.
CancelLostToCompletion ==
  \E c \in CancelIds :
    /\ cancels[c].pc \in {"refund", "done"}
    /\ cancels[c].atWrite = "completed"
    /\ jobs[cancels[c].job].status = "completed"
    /\ jobs[cancels[c].job].transcriptData = "transcript"
    /\ jobs[cancels[c].job].errorMessage = Null

\* C3: a cancel called on a completed job does not report success and refunds
\* nothing.
CancelOfCompletedIsRejected ==
  \A c \in CancelIds :
    (cancels[c].pc = "done" /\ cancels[c].atWrite = "completed")
      => (~cancels[c].success /\ cancels[c].refunded = 0)

\* C4: for every user and video at most one job is pending, downloading or
\* transcribing.
AtMostOneActiveJob ==
  \A u \in Users, v \in Videos : Cardinality(ActiveJobsOf(u, v)) <= 1

\* ---------------------------------------------------------------- ledger steps
\* The step in which the consume call for job j returns.
ConsumeStep(j) == ~consumeRet[j].called /\ consumeRet'[j].called

\* Minutes the subscription still covers, and the credit a consume can draw on.
SubscriptionRemaining(led, u) ==
  Max(0, TRANSCRIPTION_LIMITS_pro - get_transcription_usage_in_period(led, u))

AvailableCredit(led, bal, u) == SubscriptionRemaining(led, u) + bal[u]

\* The consume for job j reached the stored procedure and got its answer.
ConsumeDecided(j) ==
  /\ ConsumeStep(j)
  /\ jobs[j].userId \in MeteredUsers
  /\ subscription[jobs[j].userId] = "pro"
  /\ consumeRet'[j].error # "CONSUMPTION_FAILED"

TotalWithinCredit(led, cred) ==
  \A u \in Users :
    get_transcription_usage_in_period(led, u) <= TRANSCRIPTION_LIMITS_pro + cred[u]

\* C5: a consume that reaches the ledger succeeds exactly when the user's
\* remaining subscription minutes plus top-up balance cover it and is otherwise
\* rejected with INSUFFICIENT_CREDITS, so of two calls competing for credit
\* that covers one, one succeeds and the other is rejected; and the minutes
\* recorded as consumed never exceed the limit plus the top-up minutes credited.
OneConsumeWinsWithinCredit ==
  [][/\ TotalWithinCredit(ledger', credited')
     /\ \A j \in JobIds :
          ConsumeDecided(j) =>
            LET u == jobs[j].userId
                m == consumeRet'[j].minutes
            IN /\ consumeRet'[j].success <=> m <= AvailableCredit(ledger, topup, u)
               /\ ~consumeRet'[j].success
                    => consumeRet'[j].error = "INSUFFICIENT_CREDITS"]_vars

\* C5 witness: two consume calls of one user, each of which the credit would
\* have covered alone; one is recorded, the other was rejected.
SecondConsumeRejected ==
  \E j1, j2 \in JobIds :
    /\ j1 # j2
    /\ jobs[j1].userId = jobs[j2].userId
    /\ jobs[j1].userId \in MeteredUsers
    /\ consumeRet[j1].success /\ ledger[j1].present
    /\ consumeRet[j2].called /\ ~consumeRet[j2].success
    /\ consumeRet[j2].error = "INSUFFICIENT_CREDITS"
    /\ consumeRet[j2].minutes <= TRANSCRIPTION_LIMITS_pro + credited[jobs[j2].userId]

\* C6: a successful consume for a user who is not unlimited returns a split
\* that adds up to the minutes asked for, whose subscription part is at most
\* what the subscription still covered when the call ran, both parts >= 0.
ConsumeSplitIsExact ==
  [][\A j \in JobIds :
       (ConsumeStep(j) /\ consumeRet'[j].success /\ ~consumeRet'[j].unlimited) =>
         LET u == jobs[j].userId
             r == consumeRet'[j]
         IN /\ r.minutesFromSubscription + r.minutesFromTopup = r.minutes
            /\ r.minutesFromSubscription <= SubscriptionRemaining(ledger, u)
            /\ r.minutesFromSubscription >= 0
            /\ r.minutesFromTopup >= 0]_vars

\* C6 witness: a successful consume that drew on both pools.
ConsumeSplitAcrossPools ==
  \E j \in JobIds :
    /\ consumeRet[j].success /\ ~consumeRet[j].unlimited
    /\ consumeRet[j].minutesFromSubscription > 0
    /\ consumeRet[j].minutesFromTopup > 0

\* C7: a consume for a user who is not on the pro tier fails with NOT_PRO, one
\* whose top-up part exceeds the balance fails with INSUFFICIENT_CREDITS, and
\* every failed consume leaves the ledger and the top-up balances as they were
\* and returns a failure result that carries a reason.
RejectedConsumeChangesNothing ==
  [][\A j \in JobIds :
       ConsumeStep(j) =>
         LET u == jobs[j].userId
             r == consumeRet'[j]
         IN /\ (u \in MeteredUsers /\ subscription[u] # "pro")
                 => (~r.success /\ r.error = "NOT_PRO")
            /\ (ConsumeDecided(j)
                  /\ r.minutes - Min(r.minutes, SubscriptionRemaining(ledger, u)) > topup[u])
                 => (~r.success /\ r.error = "INSUFFICIENT_CREDITS")
            /\ ~r.success
                 => /\ ledger' = ledger
                    /\ topup' = topup
                    /\ r.error \in {"NOT_PRO", "INSUFFICIENT_CREDITS", "CONSUMPTION_FAILED"}
                    /\ r.minutesFromSubscription = 0 /\ r.minutesFromTopup = 0]_vars

\* C7 witness: a consume rejected for lack of credit while the user still held
\* top-up minutes and subscription minutes, none of which were taken.
RejectedWithCreditLeft ==
  \E j \in JobIds :
    /\ consumeRet[j].called /\ ~consumeRet[j].success
    /\ consumeRet[j].error = "INSUFFICIENT_CREDITS"
    /\ ~ledger[j].present
    /\ topup[jobs[j].userId] > 0
    /\ topup[jobs[j].userId] = credited[jobs[j].userId]
    /\ SubscriptionRemaining(ledger, jobs[j].userId) > 0

\* The step in which a direct refund call returns without a storage error.
RefundStep == refundCalls' = refundCalls + 1 /\ refundRet'.error = Null

\* The step in which cancel call c gets the answer of its refund call.
CancelRefundStep(c) == cancels[c].pc = "refund" /\ cancels'[c].pc = "done"

\* C8: right after a successful consume for a job, refunding that job brings
\* every user's period usage and top-up balance back to what they were before
\* the consume and reports the minutes consumed; and a refund that finds the
\* job's record reports the minutes that job's consume was asked for.
ConsumeThenRefundRoundTrip ==
  [][/\ \A j \in JobIds :
          (ConsumeStep(j) /\ consumeRet'[j].success /\ ~consumeRet'[j].unlimited) =>
            LET led2 == LedgerAfterRefund(ledger', j)
                bal2 == TopupAfterRefund(ledger', topup', j)
                ret == RefundReturn(RefundRpcResult(ledger', j))
            IN /\ \A u \in Users : get_transcription_usage_in_period(led2, u)
                                     = get_transcription_usage_in_period(ledger, u)
               /\ bal2 = topup
               /\ ret.success
               /\ ret.minutesRefunded = consumeRet'[j].minutes
     /\ (RefundStep /\ ledger[refundRet'.job].present)
          => refundRet'.minutesRefunded = consumeRet[refundRet'.job].minutes]_vars

\* C8 witness: a job was consumed from both pools and then refunded, the refund
\* reporting the minutes consumed, and the user is back at no usage with the
\* whole credited top-up.
RefundedAfterConsume ==
  \E j \in JobIds :
    /\ consumeRet[j].success /\ consumeRet[j].minutesFromTopup > 0
    /\ refundCalls > 0 /\ refundRet.job = j
    /\ refundRet.minutesRefunded = consumeRet[j].minutes
    /\ ~ledger[j].present
    /\ get_transcription_usage_in_period(ledger, jobs[j].userId) = 0
    /\ topup[jobs[j].userId] = credited[jobs[j].userId]

\* An earlier refund call already returned minutes for job j.
RefundedBefore(j) ==
  \/ refundCalls > 0 /\ refundRet.job = j /\ refundRet.minutesRefunded > 0
  \/ \E c \in CancelIds :
       cancels[c].pc = "done" /\ cancels[c].job = j /\ cancels[c].refunded > 0

\* No consume has recorded anything for job j.
NeverRecorded(j) ==
  ~consumeRet[j].called \/ ~consumeRet[j].success \/ consumeRet[j].unlimited

\* C9: a refund of a job that was refunded before, or for which no consumption
\* was ever recorded, returns zero minutes and leaves the ledger and the top-up
\* balances unchanged; a refund that returns minutes removes the job's record.
RefundIsIdempotent ==
  [][/\ RefundStep =>
          LET j == refundRet'.job
          IN /\ (RefundedBefore(j) \/ NeverRecorded(j))
                  => (refundRet'.minutesRefunded = 0 /\ ledger' = ledger /\ topup' = topup)
             /\ refundRet'.minutesRefunded > 0 => ~ledger'[j].present
     /\ \A c \in CancelIds :
          CancelRefundStep(c) =>
            LET j == cancels[c].job
            IN /\ (RefundedBefore(j) \/ NeverRecorded(j))
                    => (cancels'[c].refunded = 0 /\ ledger' = ledger /\ topup' = topup)
               /\ cancels'[c].refunded > 0 => ~ledger'[j].present]_vars

\* C9 witness: the job was consumed, a cancel's refund returned its minutes,
\* and a later direct refund of the same job returned zero.
SecondRefundReturnsZero ==
  \E j \in JobIds, c \in CancelIds :
    /\ consumeRet[j].success /\ ~consumeRet[j].unlimited
    /\ cancels[c].pc = "done" /\ cancels[c].job = j
    /\ cancels[c].refunded = consumeRet[j].minutes
    /\ refundCalls > 0 /\ refundRet.job = j
    /\ refundRet.success /\ refundRet.minutesRefunded = 0
    /\ ~ledger[j].present

\* What a refund of job j that finds the job's record must do to the pools.
ReversesRecordedSplit(j) ==
  LET u == ledger[j].user
  IN /\ topup' = [topup EXCEPT ![u] = @ + ledger[j].top]
     /\ get_transcription_usage_in_period(ledger', u)
          = get_transcription_usage_in_period(ledger, u) - (ledger[j].sub + ledger[j].top)
     /\ \A w \in Users \ {u} : get_transcription_usage_in_period(ledger', w)
                                 = get_transcription_usage_in_period(ledger, w)
     /\ \A k \in JobIds \ {j} : ledger'[k] = ledger[k]
     /\ ledger[j].sub = consumeRet[j].minutesFromSubscription
     /\ ledger[j].top = consumeRet[j].minutesFromTopup

TopupStep == topupCalls' = topupCalls + 1 /\ topupRet'.error = Null

\* C11: a top-up call with a payment id not applied before raises the balance
\* of its user by exactly its minutes and reports alreadyProcessed false; a
\* call with a payment id applied before, whatever its user and minutes,
\* reports alreadyProcessed true and changes no balance; so the minutes ever
\* credited to a user are counted once per payment id.
TopupAppliedOncePerPayment ==
  [][TopupStep =>
       LET u == topupRet'.user
           pid == topupRet'.payment
           m == topupRet'.minutes
       IN IF pid \in applied
          THEN /\ topupRet'.alreadyProcessed
               /\ topup' = topup
               /\ credited' = credited
               /\ applied' = applied
          ELSE /\ ~topupRet'.alreadyProcessed
               /\ topup' = [topup EXCEPT ![u] = @ + m]
               /\ topupRet'.newBalance = topup[u] + m
               /\ credited' = [credited EXCEPT ![u] = @ + m]
               /\ applied' = applied \cup {pid}]_vars

\* C11 witness: both payment ids were applied, then one was replayed with
\* other minutes; the replay was recognised and the balances hold one credit
\* per payment id.
TopupReplayRecognised ==
  /\ topupCalls = 3
  /\ applied = PaymentIds
  /\ topupRet.success /\ topupRet.alreadyProcessed
  /\ topupRet.minutes = 60
  /\ topup = [u \in Users |-> IF u = "u1" THEN 60 ELSE 0]
  /\ credited = topup

\* ------------------------------------------------------------- decision steps
\* The step in which the direct call in slot r returns.
ReturnStep(r) == reqs[r].pc # "decided" /\ reqs'[r].pc = "decided"

\* canStartTranscription has returned to its direct caller in slot r.
Decided(r) == reqs[r].pc = "decided" /\ reqs[r].mode = "canStart"

\* C12: for an unlimited user canStartTranscription returns allowed with
\* reason OK for every number of minutes, whatever the tier, the active jobs
\* and the balances; consume for such a user succeeds and writes neither the
\* ledger nor a balance, and a later refund of the job returns zero and writes
\* nothing either; no ledger entry ever belongs to an unlimited user.
UnlimitedBypassesMetering ==
  [][/\ \A r \in ReqIds :
          (ReturnStep(r) /\ reqs'[r].mode = "canStart" /\ reqs'[r].user \in UnlimitedUsers)
            => /\ reqs'[r].decision.allowed
               /\ reqs'[r].decision.reason = "OK"
               /\ reqs'[r].decision.unlimited
               /\ reqs'[r].decision.minutesNeeded = reqs'[r].minutes
     /\ \A j \in JobIds :
          (ConsumeStep(j) /\ jobs[j].userId \in UnlimitedUsers)
            => /\ consumeRet'[j].success /\ consumeRet'[j].unlimited
               /\ consumeRet'[j].minutesFromSubscription = 0
               /\ consumeRet'[j].minutesFromTopup = 0
               /\ ledger' = ledger /\ topup' = topup
     /\ (RefundStep /\ jobs[refundRet'.job].userId \in UnlimitedUsers)
          => /\ refundRet'.minutesRefunded = 0
             /\ ledger' = ledger /\ topup' = topup
     /\ \A j \in JobIds : ledger'[j].present => ledger'[j].user \notin UnlimitedUsers]_vars

\* C12 witness: an unlimited user on no tier, holding an active job, was
\* admitted for 10000 minutes; a job of theirs was consumed and then refunded,
\* and the ledger has no entry for it.
UnlimitedAdmittedAndNotCharged ==
  \E r \in ReqIds, j \in JobIds :
    /\ Decided(r) /\ reqs[r].user \in UnlimitedUsers
    /\ reqs[r].minutes = 10000 /\ reqs[r].decision.allowed
    /\ subscription[reqs[r].user] = "none"
    /\ ActiveJobsOf(reqs[r].user, reqs[r].video) # {}
    /\ jobs[j].userId = reqs[r].user
    /\ consumeRet[j].success /\ consumeRet[j].unlimited
    /\ refundCalls > 0 /\ refundRet.job = j /\ refundRet.minutesRefunded = 0
    /\ ~ledger[j].present

\* Slot r takes a step of its own.
SlotStep(r) == reqs'[r] # reqs[r]

\* C13: for a user who is not unlimited and whose subscription is on a tier
\* other than pro, canStartTranscription returns a rejection with reason
\* NOT_PRO for every number of minutes, 0 included, and every top-up balance,
\* and getTranscriptionUsageStats returns used, limit, remaining, topupMinutes
\* and totalRemaining all 0.
NonProIsRejectedWithZeroStats ==
  [][\A r \in ReqIds :
       (/\ SlotStep(r)
        /\ reqs[r].user \in MeteredUsers
        /\ subscription[reqs[r].user] = "free") =>
          /\ (reqs[r].pc = "canStart" /\ reqs[r].mode = "canStart")
               => /\ reqs'[r].pc = "decided"
                  /\ ~reqs'[r].decision.allowed
                  /\ reqs'[r].decision.reason = "NOT_PRO"
          /\ (reqs[r].pc = "statsSub" /\ reqs[r].mode = "stats")
               => /\ reqs'[r].pc = "decided"
                  /\ reqs'[r].decision.hasStats
                  /\ reqs'[r].decision.stats =
                       [used |-> 0, limit |-> 0, remaining |-> 0, topupMinutes |-> 0,
                        totalRemaining |-> 0, isUnlimited |-> FALSE]]_vars

\* C13 witness: a free-tier user who holds top-up minutes asked for 0 minutes
\* and was rejected NOT_PRO.
FreeTierRejectedForZeroMinutes ==
  \E r \in ReqIds :
    /\ Decided(r) /\ reqs[r].user \in MeteredUsers
    /\ subscription[reqs[r].user] = "free"
    /\ topup[reqs[r].user] > 0
    /\ reqs[r].minutes = 0
    /\ ~reqs[r].decision.allowed /\ reqs[r].decision.reason = "NOT_PRO"

\* Slot r, a direct call of canStartTranscription, takes the step at pc.
CanStartStepAt(r, pc) == SlotStep(r) /\ reqs[r].mode = "canStart" /\ reqs[r].pc = pc

\* canStartTranscription returns reason to slot r in this step.
ReturnsReason(r, reason) ==
  reqs'[r].pc = "decided" /\ reqs'[r].decision.reason = reason

\* C14: canStartTranscription checks unlimited, then no subscription, then
\* not pro, then an active job for the video, then the credits, and returns
\* the reason of the first check that fires; the later checks are reached
\* only when the earlier ones did not fire.
ChecksInFixedOrder ==
  [][\A r \in ReqIds :
       LET u == reqs[r].user
           v == reqs[r].video
       IN /\ CanStartStepAt(r, "canStart") =>
               IF hasUnlimitedVideoAllowanceById(u) THEN ReturnsReason(r, "OK")
               ELSE IF subscription[u] = "none" THEN ReturnsReason(r, "NO_SUBSCRIPTION")
               ELSE IF subscription[u] # "pro" THEN ReturnsReason(r, "NOT_PRO")
               ELSE reqs'[r].pc = "existingJob"
          /\ CanStartStepAt(r, "existingJob") =>
               IF ActiveJobsOf(u, v) # {} THEN ReturnsReason(r, "EXISTING_JOB")
               ELSE reqs'[r].pc = "statsSub"
          /\ (\E pc \in {"statsSub", "usage", "topup"} : CanStartStepAt(r, pc))
               => (reqs'[r].pc = "decided"
                     => reqs'[r].decision.reason
                          \in {"NO_SUBSCRIPTION", "INSUFFICIENT_CREDITS", "OK"})]_vars

\* C15: when canStartTranscription, called for a pro user who is not
\* unlimited, queries the jobs and at least one job of the user for the video
\* is pending, downloading or transcribing, it returns a rejection with reason
\* EXISTING_JOB and the id of such a job.
ActiveJobIsReported ==
  [][\A r \in ReqIds :
       (CanStartStepAt(r, "existingJob")
          /\ ActiveJobsOf(reqs[r].user, reqs[r].video) # {})
         => /\ reqs'[r].pc = "decided"
            /\ ~reqs'[r].decision.allowed
            /\ reqs'[r].decision.reason = "EXISTING_JOB"
            /\ reqs'[r].decision.existingJobId
                 \in ActiveJobsOf(reqs[r].user, reqs[r].video)]_vars

\* C16: when canStartTranscription for a pro user who is not unlimited has
\* found no active job and has the usage stats, it admits exactly when
\* totalRemaining (the subscription minutes left plus the top-up balance) is
\* at least the minutes asked for; it admits with reason OK and rejects with
\* reason INSUFFICIENT_CREDITS, the stats, and minutesNeeded equal to the
\* minutes asked for.
AdmitsIffCreditCovers ==
  [][\A r \in ReqIds :
       LET u == reqs[r].user
           m == reqs[r].minutes
           d == reqs'[r].decision
           left == IF TRANSCRIPTION_LIMITS_pro - reqs[r].used > 0
                   THEN TRANSCRIPTION_LIMITS_pro - reqs[r].used ELSE 0
       IN /\ CanStartStepAt(r, "topup") =>
               /\ reqs'[r].pc = "decided"
               /\ d.hasStats
               /\ d.stats.used = reqs[r].used
               /\ d.stats.limit = TRANSCRIPTION_LIMITS_pro
               /\ d.stats.remaining = left
               /\ d.stats.topupMinutes = topup[u]
               /\ d.stats.totalRemaining = left + topup[u]
               /\ d.allowed <=> left + topup[u] >= m
               /\ d.allowed => d.reason = "OK"
               /\ ~d.allowed => (d.reason = "INSUFFICIENT_CREDITS" /\ d.minutesNeeded = m)
          /\ (CanStartStepAt(r, "statsSub") /\ reqs'[r].pc = "decided" /\ d.hasStats) =>
               /\ d.allowed <=> d.stats.totalRemaining >= m
               /\ d.allowed => d.reason = "OK"
               /\ ~d.allowed => (d.reason = "INSUFFICIENT_CREDITS" /\ d.minutesNeeded = m)]_vars

\* C16 witness: a pro user with 100 of 120 minutes used, no top-up and no
\* active job asked for 25 minutes and was rejected for the missing 5, the
\* answer carrying the stats and the 25 minutes needed.
RejectedForMissingMinutes ==
  \E r \in ReqIds :
    /\ Decided(r) /\ reqs[r].user \in MeteredUsers
    /\ subscription[reqs[r].user] = "pro"
    /\ ActiveJobsOf(reqs[r].user, reqs[r].video) = {}
    /\ get_transcription_usage_in_period(ledger, reqs[r].user) = 100
    /\ topup[reqs[r].user] = 0
    /\ reqs[r].minutes = 25
    /\ ~reqs[r].decision.allowed
    /\ reqs[r].decision.reason = "INSUFFICIENT_CREDITS"
    /\ reqs[r].decision.hasStats
    /\ reqs[r].decision.stats.totalRemaining = 20
    /\ reqs[r].decision.minutesNeeded = 25

\* The admission in slot r saw 100 of 120 minutes used and a top-up balance of
\* 30 for a request of 25 minutes.
ScenarioAdmission(r) ==
  /\ Decided(r)
  /\ reqs[r].minutes = 25
  /\ reqs[r].decision.allowed /\ ~reqs[r].decision.unlimited
  /\ reqs[r].decision.stats.limit = 120
  /\ reqs[r].decision.stats.used = 100
  /\ reqs[r].decision.stats.topupMinutes = 30

\* C17: an admission of a user who is not unlimited sets willUseTopup exactly
\* when the subscription minutes left are fewer than the minutes asked for and
\* the top-up balance is positive; with limit 120, 100 used, top-up 30 and 25
\* minutes asked for the request is admitted with willUseTopup true, and a
\* consume of those 25 minutes in the state the admission saw takes 20 from the
\* subscription and 5 from the top-up.
WillUseTopupMatchesSplit ==
  [][/\ \A r \in ReqIds :
          LET d == reqs'[r].decision
          IN /\ (ReturnStep(r) /\ reqs'[r].mode = "canStart" /\ d.allowed /\ ~d.unlimited)
                  => (d.willUseTopup
                        <=> (d.stats.remaining < reqs'[r].minutes /\ d.stats.topupMinutes > 0))
             /\ (CanStartStepAt(r, "topup") /\ reqs[r].used = 100
                   /\ topup[reqs[r].user] = 30 /\ reqs[r].minutes = 25)
                  => (d.allowed /\ d.willUseTopup)
     /\ \A j \in JobIds :
          (/\ ConsumeDecided(j)
           /\ consumeRet'[j].minutes = 25
           /\ get_transcription_usage_in_period(ledger, jobs[j].userId) = 100
           /\ topup[jobs[j].userId] = 30
           /\ \E r \in ReqIds : ScenarioAdmission(r) /\ reqs[r].user = jobs[j].userId)
            => /\ consumeRet'[j].success
               /\ consumeRet'[j].minutesFromSubscription = 20
               /\ consumeRet'[j].minutesFromTopup = 5]_vars

\* C17 witness: the scenario's admission, followed by the consume of the 25
\* minutes, which took 20 and 5 and left 125 used and a top-up balance of 25.
ScenarioAdmittedThenSplit ==
  \E r \in ReqIds, j \in JobIds :
    /\ ScenarioAdmission(r) /\ reqs[r].decision.willUseTopup
    /\ jobs[j].userId = reqs[r].user
    /\ consumeRet[j].success /\ consumeRet[j].minutes = 25
    /\ consumeRet[j].minutesFromSubscription = 20
    /\ consumeRet[j].minutesFromTopup = 5
    /\ get_transcription_usage_in_period(ledger, reqs[r].user) = 125
    /\ topup[reqs[r].user] = 25

\* C18: no step of canStartTranscription or getTranscriptionUsageStats, from
\* the call to the return and whatever is returned, changes a job row, a
\* ledger entry, a top-up balance or the payments applied; an admission takes
\* nothing from the credit it counted.
DecisionIsReadOnly ==
  [][(\E r \in ReqIds : SlotStep(r))
       => /\ jobs' = jobs
          /\ ledger' = ledger
          /\ topup' = topup
          /\ applied' = applied
          /\ credited' = credited
          /\ subscription' = subscription]_vars

\* C18 witness: two calls were admitted on the same stats for more minutes
\* together than those stats have left, and usage and balance are still what
\* both of them read.
TwoAdmissionsOnOneBalance ==
  /\ \A r \in ReqIds :
       /\ Decided(r) /\ reqs[r].decision.allowed /\ reqs[r].decision.hasStats
       /\ reqs[r].user = reqs[1].user
       /\ reqs[r].decision.stats = reqs[1].decision.stats
       /\ reqs[r].minutes <= reqs[r].decision.stats.totalRemaining
  /\ reqs[1].minutes + reqs[2].minutes > reqs[1].decision.stats.totalRemaining
  /\ reqs[1].decision.stats.used > 0
  /\ get_transcription_usage_in_period(ledger, reqs[1].user) = reqs[1].decision.stats.used
  /\ topup[reqs[1].user] = reqs[1].decision.stats.topupMinutes

\* ------------------------------------------------------------- finished jobs
\* Every operation that was started has finished.
Quiescent ==
  /\ \A j \in JobIds : worker[j] \in {"idle", "done"}
  /\ \A c \in CancelIds : cancels[c].pc \in {"idle", "done"}

\* The consume for job j was turned down for lack of credit.
ConsumeTurnedDown(j) ==
  consumeRet[j].called /\ consumeRet[j].error = "INSUFFICIENT_CREDITS"

\* C19: once the run for a job whose consume was turned down for lack of
\* credit has finished, the job is failed with error message
\* INSUFFICIENT_CREDITS and has no minutes recorded; it is not left completed.
LateRejectionFailsTheJob ==
  \A j \in JobIds :
    (worker[j] = "done" /\ ConsumeTurnedDown(j))
      => /\ jobs[j].status = "failed"
         /\ jobs[j].errorMessage = "INSUFFICIENT_CREDITS"
         /\ ~ledger[j].present

\* C19 witness: two jobs of one pro user were both run to completion; the
\* first took the minutes, the second was turned down and ended failed.
SecondJobFailedForCredits ==
  \E j1, j2 \in JobIds :
    /\ j1 # j2 /\ jobs[j1].userId = jobs[j2].userId
    /\ worker[j1] = "done" /\ worker[j2] = "done"
    /\ jobs[j1].status = "completed" /\ ledger[j1].present
    /\ ConsumeTurnedDown(j2)
    /\ jobs[j2].status = "failed"
    /\ jobs[j2].errorMessage = "INSUFFICIENT_CREDITS"
    /\ subscription[jobs[j2].userId] = "pro"

ProviderAnchored(sub) == sub.currentPeriodStart # NoDate /\ sub.currentPeriodEnd # NoDate

SignupAnchored(sub) ==
  /\ ~(sub.tier = "pro" /\ ProviderAnchored(sub))
  /\ sub.userCreatedAt # NoDate

ProviderDates(sub) == [start |-> sub.currentPeriodStart, end |-> sub.currentPeriodEnd]

\* C21 as stated: for a subscription with both provider dates the resolver
\* returns exactly those two dates, whatever now and the signup anchor are.
ProviderDatesReturnedVerbatim ==
  (billing.called /\ ProviderAnchored(billing.sub))
    => billing.ret = ProviderDates(billing.sub)

\* C21 amended: for a pro subscription with both provider dates the resolver
\* returns exactly those two dates, whatever now and the signup anchor are.
ProProviderDatesReturnedVerbatim ==
  (billing.called /\ billing.sub.tier = "pro" /\ ProviderAnchored(billing.sub))
    => billing.ret = ProviderDates(billing.sub)

\* C21 witness: a pro subscription with provider dates and a signup anchor is
\* resolved at an instant after the provider's period ended, and the provider's
\* dates come back.
StaleProviderDatesReturned ==
  /\ billing.called
  /\ billing.sub.tier = "pro" /\ ProviderAnchored(billing.sub)
  /\ billing.sub.userCreatedAt # NoDate
  /\ billing.now > billing.sub.currentPeriodEnd
  /\ billing.ret = ProviderDates(billing.sub)

\* The period p is the 30-day window of the signup-anchored grid that holds now.
WindowOf(sub, now, p) ==
  /\ p.end = p.start + THIRTY_DAYS_MS
  /\ (p.start - sub.userCreatedAt) % THIRTY_DAYS_MS = 0
  /\ p.start <= now /\ now < p.end

\* C22: for a signup-anchored subscription every call returns the 30-day window
\* of the grid anchored at signup that holds now (end = start + 30 days); a call
\* at the end of the period last returned gets the period that starts there, a
\* call inside that period gets the same period again (in particular the same
\* now gives the same result), and any other call gets a period disjoint from it.
SignupPeriodsPartitionTime ==
  [][(billing'.called /\ SignupAnchored(billing'.sub))
       => /\ WindowOf(billing'.sub, billing'.now, billing'.ret)
          /\ (billing.called /\ billing.sub = billing'.sub)
               => /\ billing'.now = billing.ret.end => billing'.ret.start = billing.ret.end
                  /\ billing'.now = billing.now => billing'.ret = billing.ret
                  /\ (billing.ret.start <= billing'.now /\ billing'.now < billing.ret.end)
                       => billing'.ret = billing.ret
                  /\ \/ billing'.ret = billing.ret
                     \/ billing'.ret.end <= billing.ret.start
                     \/ billing'.ret.start >= billing.ret.end]_vars

\* C22 witness: a subscription with a signup anchor and no usable provider
\* dates is resolved at an instant before signup, and the window returned is
\* the grid window that holds that instant.
WindowBeforeSignup ==
  /\ billing.called /\ SignupAnchored(billing.sub)
  /\ billing.now < billing.sub.userCreatedAt
  /\ billing.ret.end <= billing.sub.userCreatedAt
  /\ WindowOf(billing.sub, billing.now, billing.ret)

\* ---------------------------------------------------------------- usage stats
\* getTranscriptionUsageStats has returned to its direct caller in slot r.
StatsReturned(r) == reqs[r].pc = "decided" /\ reqs[r].mode = "stats"

\* C23: the stats getTranscriptionUsageStats returns to a user who is not
\* unlimited have remaining = max(0, limit - used), remaining >= 0 and
\* totalRemaining = remaining + topupMinutes; an unlimited user gets the
\* sentinel as limit, remaining and totalRemaining with isUnlimited true, in
\* the first step of the call, before the subscription or the usage is read.
UsageStatsAreConsistent ==
  [][\A r \in ReqIds :
       (ReturnStep(r) /\ reqs'[r].mode = "stats")
         => LET s == reqs'[r].decision.stats
            IN IF reqs'[r].user \in UnlimitedUsers
               THEN /\ reqs'[r].decision.hasStats
                    /\ s.isUnlimited
                    /\ s.limit = UNLIMITED_MINUTES
                    /\ s.remaining = UNLIMITED_MINUTES
                    /\ s.totalRemaining = UNLIMITED_MINUTES
                    /\ reqs[r].pc = "statsSub"
               ELSE reqs'[r].decision.hasStats
                      => /\ ~s.isUnlimited
                         /\ s.remaining = (IF s.limit - s.used > 0 THEN s.limit - s.used ELSE 0)
                         /\ s.remaining >= 0
                         /\ s.totalRemaining = s.remaining + s.topupMinutes]_vars

\* C23 witness: a pro user's stats show more minutes used than the limit, no
\* allowance remaining and the top-up balance as all that remains.
StatsWithUsageAboveLimit ==
  \E r \in ReqIds :
    /\ StatsReturned(r) /\ reqs[r].user \notin UnlimitedUsers
    /\ reqs[r].decision.hasStats
    /\ reqs[r].decision.stats.used > reqs[r].decision.stats.limit
    /\ reqs[r].decision.stats.remaining = 0
    /\ reqs[r].decision.stats.topupMinutes > 0
    /\ reqs[r].decision.stats.totalRemaining = reqs[r].decision.stats.topupMinutes

\* C24: a call of canStartTranscription or getTranscriptionUsageStats whose
\* read of the period usage failed returns a failure: no stats and no admission.
UnreadableUsageIsSurfaced ==
  \A r \in ReqIds :
    (reqs[r].pc = "decided" /\ reqs[r].usageError)
      => ~reqs[r].decision.allowed /\ ~reqs[r].decision.hasStats

\* ----------------------------------------------------------------- job updates
\* C25: the stored progress of a job never decreases and stays within 0..100,
\* whatever updates arrive and in whatever order.
ProgressNeverDecreases ==
  [][\A j \in JobIds :
       jobs[j].exists
         => /\ jobs'[j].progress >= jobs[j].progress
            /\ jobs'[j].progress \in 0..100]_vars

\* The update call of this step, on job j.
TrackedUpdateStep(j) == lastUpdate' # lastUpdate /\ lastUpdate'.job = j

\* C26: an update changes exactly the fields it supplies: each supplied field
\* takes the supplied value, every other field of the row and every other row
\* stay as they were.  Hence of two updates with disjoint fields both take
\* effect, whichever comes last.
UpdateIsSparsePatch ==
  [][\A j \in JobIds :
       TrackedUpdateStep(j)
         => LET p == lastUpdate'.patch
            IN /\ jobs'[j].status = (IF p.status # Unset THEN p.status ELSE jobs[j].status)
               /\ jobs'[j].progress = (IF p.progress # -1 THEN p.progress ELSE jobs[j].progress)
               /\ jobs'[j].errorMessage =
                    (IF p.errorMessage # Unset THEN p.errorMessage ELSE jobs[j].errorMessage)
               /\ jobs'[j].transcriptData =
                    (IF p.transcriptData # Unset THEN p.transcriptData
                     ELSE jobs[j].transcriptData)
               /\ jobs'[j].userId = jobs[j].userId
               /\ jobs'[j].youtubeId = jobs[j].youtubeId
               /\ \A k \in JobIds \ {j} : jobs'[k] = jobs[k]]_vars

\* C26 witness: the last update supplied the progress alone, and the row still
\* carries the status, the error message and the transcript that earlier
\* updates had supplied.
EarlierFieldsSurviveLaterUpdate ==
  \E j \in JobIds :
    /\ lastUpdate.job = j
    /\ lastUpdate.patch = Patch(Unset, 60, Unset, Unset)
    /\ jobs[j].progress = 60
    /\ jobs[j].status = "transcribing"
    /\ jobs[j].errorMessage = "error"
    /\ jobs[j].transcriptData = "transcript"

\* --------------------------------------------------------------- job creation
\* The row of job j is inserted in this step.
CreateStep(j) == ~jobs[j].exists /\ jobs'[j].exists

\* C27: a job row starts as pending with progress 0, and the handler inserts it
\* only in a request for which canStartTranscription returned allowed for the
\* same user, video and minutes, answering that request with the new job; a
\* request that is answered with a rejection inserts no row, then or later.
JobCreatedOnlyWhenAdmitted ==
  [][/\ \A j \in JobIds :
          CreateStep(j)
            => /\ jobs'[j].status = "pending" /\ jobs'[j].progress = 0
               /\ \E r \in ReqIds :
                    /\ reqs[r].pc = "create"
                    /\ reqs[r].decision.allowed
                    /\ reqs[r].decision.minutesNeeded = reqs[r].minutes
                    /\ jobs'[j].userId = reqs[r].user
                    /\ jobs'[j].youtubeId = reqs[r].video
                    /\ reqs'[r].response = "pending" /\ reqs'[r].jobId = j
     /\ \A r \in ReqIds :
          (SlotStep(r) /\ reqs'[r].response = "rejected") => jobs' = jobs
     /\ \A r \in ReqIds :
          reqs[r].response = "rejected" => reqs'[r] = reqs[r]]_vars

\* C27 witness: one request was turned down and another, for the same user and
\* video, was admitted and answered with the only job there is.
OneRejectedOneCreated ==
  \E r1, r2 \in ReqIds :
    /\ reqs[r1].response = "rejected"
    /\ reqs[r2].response = "pending"
    /\ jobs[reqs[r2].jobId].exists
    /\ jobs[reqs[r2].jobId].status = "pending" /\ jobs[reqs[r2].jobId].progress = 0
    /\ JobCount = 1

\* ------------------------------------------------------------ top-up balance
\* The balance of u is debited by a successful consume, by its top-up part.
DebitedByConsume(u) ==
  \E j \in JobIds :
    /\ ~consumeRet[j].called /\ consumeRet'[j].called /\ consumeRet'[j].success
    /\ jobs[j].userId = u
    /\ ~ledger[j].present /\ ledger'[j].present
    /\ topup'[u] = topup[u] - ledger'[j].top

\* The balance of u is credited by a refund, with the top-up part recorded.
CreditedByRefund(u) ==
  \E j \in JobIds :
    /\ ledger[j].present /\ ~ledger'[j].present
    /\ ledger[j].user = u
    /\ topup'[u] = topup[u] + ledger[j].top

\* The balance of u is credited by a payment applied for the first time.
CreditedByTopup(u) ==
  /\ topupCalls' = topupCalls + 1
  /\ topupRet'.success /\ ~topupRet'.alreadyProcessed
  /\ topupRet'.user = u /\ topupRet'.payment \notin applied
  /\ topup'[u] = topup[u] + topupRet'.minutes

\* C28: every user's top-up balance is a non-negative integer, and a step
\* changes it only as the debit of a successful consume, the credit of a
\* refund's recorded split or the credit of a payment applied for the first
\* time; a step of a decision call or a write to a job row leaves it alone.
TopupBalanceOwnedByLedger ==
  [][/\ \A u \in Users :
          /\ topup'[u] \in Nat
          /\ topup'[u] # topup[u]
               => DebitedByConsume(u) \/ CreditedByRefund(u) \/ CreditedByTopup(u)
     /\ (reqs' # reqs \/ jobs' # jobs) => topup' = topup]_vars

\* C28 witness: the metered user's balance was credited by a payment, debited
\* by a consume and credited back by a refund, while a decision call for them
\* returned; the refund was that of a cancel of the job.
BalanceCreditedDebitedRefunded ==
  \E j \in JobIds, r \in ReqIds, c \in CancelIds :
    /\ credited["u1"] > 0 /\ topup["u1"] = credited["u1"]
    /\ jobs[j].userId = "u1"
    /\ consumeRet[j].success /\ consumeRet[j].minutesFromTopup > 0
    /\ ~ledger[j].present
    /\ Decided(r) /\ reqs[r].user = "u1"
    /\ cancels[c].pc = "done" /\ cancels[c].job = j

\* C29: a successful consume takes from the subscription the smaller of the
\* minutes asked for and what the limit leaves at that moment, and from the
\* top-up balance the shortfall only; the balance is debited exactly when the
\* allowance left is smaller than the minutes asked for.
SubscriptionIsDrawnFirst ==
  [][\A j \in JobIds :
       (ConsumeDecided(j) /\ consumeRet'[j].success)
         => LET u == jobs[j].userId
                m == consumeRet'[j].minutes
                left == IF TRANSCRIPTION_LIMITS_pro
                            > get_transcription_usage_in_period(ledger, u)
                        THEN TRANSCRIPTION_LIMITS_pro
                               - get_transcription_usage_in_period(ledger, u)
                        ELSE 0
                fromSubscription == IF m < left THEN m ELSE left
            IN /\ consumeRet'[j].minutesFromSubscription = fromSubscription
               /\ consumeRet'[j].minutesFromTopup = m - fromSubscription
               /\ topup'[u] = topup[u] - (m - fromSubscription)
               /\ (topup'[u] < topup[u]) <=> (left < m)]_vars

\* C29 witness: with a top-up balance of 30 bought and 120 minutes allowed, a
\* job of 100 minutes was paid by the subscription alone and a job of 25 by
\* the 20 minutes left plus 5 of the balance.
ShortfallOnlyFromTopup ==
  \E j1, j2 \in JobIds :
    /\ ledger[j1].present /\ ledger[j1].sub = 100 /\ ledger[j1].top = 0
    /\ ledger[j2].present /\ ledger[j2].sub = 20 /\ ledger[j2].top = 5
    /\ ledger[j1].user = ledger[j2].user
    /\ credited[ledger[j1].user] = 30 /\ topup[ledger[j1].user] = 25

\* ------------------------------------------------------- completed transcripts
\* The start request in slot r arrives and is given its first answer.
ArrivalStep(r) == reqs[r].pc = "idle" /\ reqs'[r].pc # "idle"

\* The completed jobs of video v that carry a transcript.
TranscribedJobsOf(v) ==
  {j \in JobIds : /\ jobs[j].exists /\ jobs[j].youtubeId = v
                  /\ jobs[j].status = "completed" /\ jobs[j].transcriptData # Null}

SignupPeriodHoldsNow ==
  (billing.called /\ SignupAnchored(billing.sub))
    => /\ billing.ret.start <= billing.now
       /\ billing.now < billing.ret.end
       /\ billing.ret.start < billing.ret.end

\* C33 witness: the call is made exactly one cycle after signup, and the
\* period returned starts at that instant.
ResolvedOnCycleBoundary ==
  /\ billing.called /\ SignupAnchored(billing.sub)
  /\ billing.now = billing.sub.userCreatedAt + THIRTY_DAYS_MS
  /\ billing.ret.start = billing.now
  /\ billing.ret.end = billing.now + THIRTY_DAYS_MS

\* --------------------------------------------------------------- cancel result
\* The cancel call in slot c returns in this step.
CancelReturnStep(c) == cancels[c].pc # "done" /\ cancels'[c].pc = "done"

\* C34: cancelTranscriptionJob returns success only when its update found the
\* job in a non-terminal status and set it to cancelled, and its refund call
\* did not fail (an entry recorded for the job is gone when it returns).
CancelSuccessMeansCancelled ==
  [][\A c \in CancelIds :
       (CancelReturnStep(c) /\ cancels'[c].success)
         => /\ cancels'[c].atWrite \in ActiveStatuses
            /\ ~ledger'[cancels'[c].job].present]_vars

\* -------------------------------------------------------------------- progress
\* C31: every job the handler created reaches a terminal status, the run for
\* it being fair, also when the request that triggers the run was lost.
EveryJobReachesTerminal ==
  \A j \in JobIds : jobs[j].exists ~> (jobs[j].status \in TerminalStatuses)

\* ------------------------------------------------------------------ snapshots
\* C32: the totalRemaining a pro user's stats call returns is the credit
\* (subscription minutes left plus top-up balance) of a state the storage was
\* in during the call.  When at most one writing call ran during the call,
\* those states are the one at the call and the one at the return.
StatsShowOneLedgerState ==
  [][\A r \in ReqIds :
       (/\ ReturnStep(r) /\ reqs'[r].mode = "stats"
        /\ reqs[r].pc = "topup" /\ ~reqs[r].usageError
        /\ LedgerWrites - reqs[r].writesAtCall <= 1)
         => \/ reqs'[r].decision.stats.totalRemaining = reqs[r].creditAtCall
            \/ reqs'[r].decision.stats.totalRemaining
                 = AvailableCredit(ledger, topup, reqs[r].user)]_vars

====
